---- MODULE Spec2Model ----
(***************************************************************************)
(* Context-Bench evaluation engine: byte-interval algebra, line-to-byte    *)
(* mapping, unified-diff parsing, trajectory metrics, edit localization.   *)
(* Every component is a pure function of its inputs; each specification    *)
(* below draws the inputs of one component and applies its operations.     *)
(***************************************************************************)
EXTENDS Integers, Sequences, FiniteSets, TLC

VARIABLES
    input,    \* the arguments (and the files they refer to) of the call under study
    op,       \* the function that has been called ("none" before the call)
    ret       \* the value that call returned

vars == <<input, op, ret>>

\* ret before any call
NoRet == <<>>

(***************************************************************************)
(* Generic helpers                                                         *)
(***************************************************************************)
Max(x, y) == IF x >= y THEN x ELSE y
Min(x, y) == IF x <= y THEN x ELSE y

SeqsUpTo(S, n) == UNION {[1..k -> S] : k \in 0..n}

RECURSIVE SumSeq(_)
SumSeq(s) == IF s = <<>> THEN 0 ELSE Head(s) + SumSeq(Tail(s))

(***************************************************************************)
(* src/core/intervals.py                                                   *)
(***************************************************************************)
\* Bounds of the interval inputs.
MaxByte == 4
MaxLen == 3
MaxPairByte == 3

\* ByteInterval = (start, end) inclusive, start <= end.
ByteIntervals(hi) == {iv \in (0..hi) \X (0..hi) : iv[1] <= iv[2]}

\* Python's tuple ordering used by sorted(): lexicographic on (start, end).
TupleLeq(x, y) == x[1] < y[1] \/ (x[1] = y[1] /\ x[2] <= y[2])

RECURSIVE InsertSorted(_, _)
InsertSorted(x, s) ==
    IF s = <<>> THEN <<x>>
    ELSE IF TupleLeq(x, Head(s)) THEN <<x>> \o s
    ELSE <<Head(s)>> \o InsertSorted(x, Tail(s))

\* sorted(intervals)
RECURSIVE SortedIntervals(_)
SortedIntervals(s) ==
    IF s = <<>> THEN <<>> ELSE InsertSorted(Head(s), SortedIntervals(Tail(s)))

\* One iteration of merge's for loop: fold current into merged.
MergeStepNoAdjacent(merged, current) ==
    LET last == merged[Len(merged)] IN
    IF current[1] <= last[2]
    THEN [merged EXCEPT ![Len(merged)] = <<last[1], Max(last[2], current[2])>>]
    ELSE Append(merged, current)

MergeStep(merged, current) ==
    LET last == merged[Len(merged)] IN
    IF current[1] <= last[2] + 1
    THEN [merged EXCEPT ![Len(merged)] = <<last[1], Max(last[2], current[2])>>]
    ELSE Append(merged, current)

RECURSIVE MergeLoop(_, _)
MergeLoop(rest, merged) ==
    IF rest = <<>> THEN merged
    ELSE MergeLoop(Tail(rest), MergeStep(merged, Head(rest)))

\* merge(intervals)
Merge(intervals) ==
    IF intervals = <<>> THEN <<>>
    ELSE LET s == SortedIntervals(intervals) IN MergeLoop(Tail(s), <<Head(s)>>)

\* length(intervals)
Length(intervals) ==
    LET m == Merge(intervals) IN
    SumSeq([k \in 1..Len(m) |-> m[k][2] - m[k][1] + 1])

\* The while loop of intersect over a_m, b_m with 1-based cursors i, j.
RECURSIVE SweepSkipping(_, _, _, _, _)
SweepSkipping(am, bm, i, j, result) ==
    IF ~(i <= Len(am) /\ j <= Len(bm)) THEN result
    ELSE
      LET lo == Max(am[i][1], bm[j][1])
          hi == Min(am[i][2], bm[j][2])
          r2 == IF lo <= hi THEN Append(result, <<lo, hi>>) ELSE result
      IN IF am[i][2] < bm[j][2] THEN SweepSkipping(am, bm, i + 1, j, r2)
         ELSE SweepSkipping(am, bm, i + 1, j + 1, r2)

RECURSIVE Sweep(_, _, _, _, _)
Sweep(am, bm, i, j, result) ==
    IF ~(i <= Len(am) /\ j <= Len(bm)) THEN result
    ELSE
      LET lo == Max(am[i][1], bm[j][1])
          hi == Min(am[i][2], bm[j][2])
          r2 == IF lo <= hi THEN Append(result, <<lo, hi>>) ELSE result
      IN IF am[i][2] < bm[j][2] THEN Sweep(am, bm, i + 1, j, r2)
         ELSE IF bm[j][2] < am[i][2] THEN Sweep(am, bm, i, j + 1, r2)
         ELSE Sweep(am, bm, i + 1, j + 1, r2)

\* intersect(a, b)
Intersect(x, y) == Sweep(Merge(x), Merge(y), 1, 1, <<>>)

\* intersect_size(a, b)
IntersectSize(x, y) == Length(Intersect(x, y))

\* The integers covered by an interval list.
Covered(s) == UNION {s[k][1]..s[k][2] : k \in 1..Len(s)}

\* --- operations on the interval inputs
CallMerge ==
    /\ op = "none"
    /\ op' = "merge"
    /\ ret' = Merge(input.a)
    /\ UNCHANGED input

CallLength ==
    /\ op = "none"
    /\ op' = "length"
    /\ ret' = Length(input.a)
    /\ UNCHANGED input

CallIntersect ==
    /\ op = "none"
    /\ op' = "intersect"
    /\ ret' = Intersect(input.a, input.b)
    /\ UNCHANGED input

CallIntersectSelf ==
    /\ op = "none"
    /\ op' = "intersect_self"
    /\ ret' = Intersect(input.a, input.a)
    /\ UNCHANGED input

\* merge and length applied to one arbitrary list.
MergeInit ==
    /\ input \in [a : SeqsUpTo(ByteIntervals(MaxByte), MaxLen)]
    /\ op = "none"
    /\ ret = NoRet

MergeNext == CallMerge \/ CallLength

SpecMerge == MergeInit /\ [][MergeNext]_vars

\* intersect applied to two arbitrary lists; a list is as long as the longest
\* merged list the byte range admits.
MaxPairLen == (MaxPairByte + 1) \div 2

IntersectInit ==
    /\ input \in [a : SeqsUpTo(ByteIntervals(MaxPairByte), MaxPairLen),
                  b : SeqsUpTo(ByteIntervals(MaxPairByte), MaxPairLen)]
    /\ op = "none"
    /\ ret = NoRet

IntersectNext == CallIntersect \/ CallIntersectSelf \/ CallLength

SpecIntersect == IntersectInit /\ [][IntersectNext]_vars

(***************************************************************************)
(* C1: merge(x) is sorted by start, consecutive outputs are separated by   *)
(* at least one byte (next.start > prev.end + 1), merge(x) covers exactly  *)
(* the integers x covers, and merge(merge(x)) = merge(x).                  *)
(***************************************************************************)
MergeCanonical ==
    op = "merge" =>
        /\ \A k \in 1..Len(ret) : ret[k][1] <= ret[k][2]
        /\ \A k \in 1..(Len(ret) - 1) : ret[k + 1][1] > ret[k][2] + 1
        /\ Covered(ret) = Covered(input.a)
        /\ Merge(ret) = ret

\* an unsorted input with an overlapping and an adjacent pair has been merged
MergeCanonicalWitness ==
    /\ op = "merge"
    /\ input.a = <<<<3, 4>>, <<0, 1>>, <<1, 2>>>>
    /\ ret = <<<<0, 4>>>>

(***************************************************************************)
(* C2: intersect(a, b) covers exactly the integers covered by both a and   *)
(* b, and is sorted and pairwise disjoint.                                 *)
(***************************************************************************)
IntersectExact ==
    op = "intersect" =>
        /\ Covered(ret) = Covered(input.a) \cap Covered(input.b)
        /\ \A k \in 1..Len(ret) : ret[k][1] <= ret[k][2]
        /\ \A k \in 1..(Len(ret) - 1) : ret[k + 1][1] > ret[k][2]

\* one interval of b overlaps two intervals of a: the sweep must keep b's
\* interval while it advances a
IntersectExactWitness ==
    /\ op = "intersect"
    /\ Merge(input.a) = <<<<0, 0>>, <<2, 3>>>>
    /\ Merge(input.b) = <<<<0, 2>>>>
    /\ ret = <<<<0, 0>>, <<2, 2>>>>

(***************************************************************************)
(* C3: intersect(a, b) = intersect(b, a), and                              *)
(* length(intersect(a, a)) = length(merge(a)).                             *)
(***************************************************************************)
IntersectCommutes ==
    /\ op = "intersect" => ret = Intersect(input.b, input.a)
    /\ op = "intersect_self" => Length(ret) = Length(Merge(input.a))

IntersectCommutesWitness ==
    /\ op = "intersect"
    /\ input.a # input.b
    /\ Len(Merge(input.a)) = 2
    /\ Len(ret) = 2

(***************************************************************************)
(* Ratios.  Python's true division and the float literals 1.0 and 0.0 are  *)
(* modelled as exact rationals <<numerator, denominator>> in lowest terms  *)
(* with a positive denominator, so two ratios are equal iff their pairs    *)
(* are.                                                                    *)
(***************************************************************************)
RECURSIVE Gcd(_, _)
Gcd(x, y) == IF y = 0 THEN x ELSE Gcd(y, x % y)

Abs(x) == IF x < 0 THEN -x ELSE x

\* n / d for d > 0
Ratio(n, d) == LET g == Gcd(Abs(n), d) IN <<n \div g, d \div g>>

One == <<1, 1>>
Zero == <<0, 1>>

RAdd(x, y) == Ratio(x[1] * y[2] + y[1] * x[2], x[2] * y[2])
RSub(x, y) == Ratio(x[1] * y[2] - y[1] * x[2], x[2] * y[2])
\* x / t for an integer t > 0
RDivInt(x, t) == Ratio(x[1], x[2] * t)
RLeq(x, y) == x[1] * y[2] <= y[1] * x[2]

RECURSIVE RSum(_)
RSum(s) == IF s = <<>> THEN Zero ELSE RAdd(Head(s), RSum(Tail(s)))

(***************************************************************************)
(* src/metrics/compute.py: coverage_precision                              *)
(***************************************************************************)
\* Largest size handed to coverage_precision.
MaxSize == 5

CoveragePrecisionSwapped(pred_size, gold_size, inter_size) ==
    [cov  |-> IF pred_size > 0 THEN Ratio(inter_size, pred_size) ELSE One,
     prec |-> IF gold_size > 0 THEN Ratio(inter_size, gold_size) ELSE One]

\* coverage_precision(pred_size, gold_size, inter_size) -> (cov, prec)
CoveragePrecision(pred_size, gold_size, inter_size) ==
    [cov  |-> IF gold_size > 0 THEN Ratio(inter_size, gold_size) ELSE One,
     prec |-> IF pred_size > 0 THEN Ratio(inter_size, pred_size) ELSE One]

CallCoveragePrecision ==
    /\ op = "none"
    /\ op' = "coverage_precision"
    /\ ret' = CoveragePrecision(input.pred, input.gold, input.inter)
    /\ UNCHANGED input

CovPrecInit ==
    /\ input \in [pred : 0..MaxSize, gold : 0..MaxSize, inter : 0..MaxSize]
    /\ op = "none"
    /\ ret = NoRet

CovPrecNext == CallCoveragePrecision

SpecCovPrec == CovPrecInit /\ [][CovPrecNext]_vars

(***************************************************************************)
(* C4: coverage_precision returns coverage = inter/gold when gold > 0 and  *)
(* 1.0 when gold = 0, precision = inter/pred when pred > 0 and 1.0 when    *)
(* pred = 0; (0,0,0) gives (1.0, 1.0), (pred 5, gold 0, inter 0) gives     *)
(* (1.0, 0.0) and (pred 0, gold 5, inter 0) gives (0.0, 1.0).              *)
(***************************************************************************)
CovPrecDefined ==
    op = "coverage_precision" =>
        /\ input.gold > 0 => /\ ret.cov[2] > 0
                             /\ ret.cov[1] * input.gold = input.inter * ret.cov[2]
        /\ input.gold = 0 => ret.cov = <<1, 1>>
        /\ input.pred > 0 => /\ ret.prec[2] > 0
                             /\ ret.prec[1] * input.pred = input.inter * ret.prec[2]
        /\ input.pred = 0 => ret.prec = <<1, 1>>
        /\ input = [pred |-> 0, gold |-> 0, inter |-> 0]
              => ret = [cov |-> <<1, 1>>, prec |-> <<1, 1>>]
        /\ input = [pred |-> 5, gold |-> 0, inter |-> 0]
              => ret = [cov |-> <<1, 1>>, prec |-> <<0, 1>>]
        /\ input = [pred |-> 0, gold |-> 5, inter |-> 0]
              => ret = [cov |-> <<0, 1>>, prec |-> <<1, 1>>]

\* a vacuous gold against a non-empty prediction has been scored
CovPrecDefinedWitness ==
    /\ op = "coverage_precision"
    /\ input = [pred |-> 5, gold |-> 0, inter |-> 0]
    /\ ret = [cov |-> <<1, 1>>, prec |-> <<0, 1>>]

(***************************************************************************)
(* src/core/fileio.py: line_to_byte                                        *)
(***************************************************************************)
\* Longest file content and largest line number requested.
MaxContent == 8
MaxLine == 5

\* A file's bytes: "nl" is the newline byte, "x" any other byte.
FileBytes == {"x", "nl"}

\* Optional[...] = None
None == "None"

\* offsets = [0] + [i + 1 for every i with content[i] == '\n'], as a
\* 1-based sequence; p is the 1-based position scanned next.
RECURSIVE OffsetTable(_, _, _)
OffsetTable(content, p, offsets) ==
    IF p > Len(content) THEN offsets
    ELSE OffsetTable(content, p + 1,
                     IF content[p] = "nl" THEN Append(offsets, p) ELSE offsets)

LineToByteEndAtNextLine(exists, content, start_line, end_line) ==
    IF ~exists THEN None
    ELSE IF content = <<>> THEN <<0, 0>>
    ELSE
      LET offsets == OffsetTable(content, 1, <<0>>)
          sl == Max(1, start_line)
          el == Max(sl, end_line)
          start_idx == sl - 1
          end_idx == el - 1
      IN IF start_idx >= Len(offsets) THEN None
         ELSE
           LET start_byte == offsets[start_idx + 1]
               end_byte == IF end_idx + 1 < Len(offsets)
                           THEN offsets[end_idx + 2]
                           ELSE Len(content) - 1
           IN <<start_byte, Max(start_byte, end_byte)>>

\* line_to_byte(file_path, start_line, end_line); exists is whether the file
\* can be opened, content what it holds.
LineToByte(exists, content, start_line, end_line) ==
    IF ~exists THEN None
    ELSE IF content = <<>> THEN <<0, 0>>
    ELSE
      LET offsets == OffsetTable(content, 1, <<0>>)
          sl == Max(1, start_line)
          el == Max(sl, end_line)
          start_idx == sl - 1
          end_idx == el - 1
      IN IF start_idx >= Len(offsets) THEN None
         ELSE
           LET start_byte == offsets[start_idx + 1]
               end_byte == IF end_idx + 1 < Len(offsets)
                           THEN offsets[end_idx + 2] - 1
                           ELSE Len(content) - 1
           IN <<start_byte, Max(start_byte, end_byte)>>

CallLineToByte ==
    /\ op = "none"
    /\ op' = "line_to_byte"
    /\ ret' = LineToByte(input.exists, input.content, input.start_line, input.end_line)
    /\ UNCHANGED input

LineToByteInit ==
    /\ input \in [exists : BOOLEAN,
                  content : SeqsUpTo(FileBytes, MaxContent),
                  start_line : 0..MaxLine,
                  end_line : 0..MaxLine]
    /\ (~input.exists => input.content = <<>>)
    /\ op = "none"
    /\ ret = NoRet

LineToByteNext == CallLineToByte

SpecLineToByte == LineToByteInit /\ [][LineToByteNext]_vars

\* The file "abc\n" "de\n" "f".
AbcFile == <<"x", "x", "x", "nl", "x", "x", "nl", "x">>

\* Lines of a file, counted as the text before the first newline, between
\* newlines and after the last one.
NumLines(content) == 1 + Cardinality({p \in 1..Len(content) : content[p] = "nl"})

\* The 0-based offset of the first byte of line k: just after the (k-1)-th newline.
LineStart(content, k) ==
    IF k = 1 THEN 0
    ELSE CHOOSE p \in 1..Len(content) :
            /\ content[p] = "nl"
            /\ Cardinality({q \in 1..p : content[q] = "nl"}) = k - 1

Requested(sl, el) == input.start_line = sl /\ input.end_line = el

\* startByte is the offset of startLine; endByte is one less than the offset
\* of endLine+1, or len(content)-1 when endLine is the last line, floored at
\* startByte.
LineToByteGeneral ==
    ( /\ input.content # <<>>
      /\ 1 <= input.start_line
      /\ input.start_line <= input.end_line
      /\ input.end_line <= NumLines(input.content) ) =>
        /\ ret # None
        /\ ret[1] = LineStart(input.content, input.start_line)
        /\ ret[2] = Max(ret[1],
                        IF input.end_line < NumLines(input.content)
                        THEN LineStart(input.content, input.end_line + 1) - 1
                        ELSE Len(input.content) - 1)

(***************************************************************************)
(* C5 as stated: for the file "abc\n","de\n","f", lines (2,2) map to bytes *)
(* (4,6), lines (1,3) to bytes (0,10) and lines (5,5) to None; startByte   *)
(* is the offset of startLine and endByte one less than the offset of      *)
(* endLine+1, or len(content)-1 when endLine is the last line.             *)
(***************************************************************************)
LineToByteAsStated ==
    (op = "line_to_byte" /\ input.exists) =>
        /\ input.content = AbcFile =>
              /\ Requested(2, 2) => ret = <<4, 6>>
              /\ Requested(1, 3) => ret = <<0, 10>>
              /\ Requested(5, 5) => ret = None
        /\ LineToByteGeneral

(***************************************************************************)
(* C5 as amended: for that file lines (2,2) map to bytes (4,6), lines      *)
(* (1,3) to bytes (0,7), the file being 8 bytes long, and lines (5,5) to   *)
(* None; startByte is the offset of startLine and endByte is one less than *)
(* the offset of endLine+1, or len(content)-1 when endLine is the last     *)
(* line.                                                                   *)
(***************************************************************************)
LineToByteMapsLines ==
    (op = "line_to_byte" /\ input.exists) =>
        /\ input.content = AbcFile =>
              /\ Requested(2, 2) => ret = <<4, 6>>
              /\ Requested(1, 3) => ret = <<0, 7>>
              /\ Requested(5, 5) => ret = None
        /\ LineToByteGeneral

\* the whole three-line file has been mapped
LineToByteMapsLinesWitness ==
    /\ op = "line_to_byte"
    /\ input.exists
    /\ input.content = AbcFile
    /\ Requested(1, 3)
    /\ ret = <<0, 7>>

(***************************************************************************)
(* src/parsers/diff.py                                                     *)
(*                                                                         *)
(* A line of diff text is a record: k says which text the line holds,      *)
(* file the path of a '+++ b/<path>' line, old and new the a and c of a    *)
(* '@@ -a,b +c,d @@' line.                                                 *)
(*   "diff"     'diff --git a/<path> b/<path>'                             *)
(*   "old"      '--- a/<path>'                                             *)
(*   "new"      '+++ b/<path>'                                             *)
(*   "newnull"  '+++ /dev/null'            (the file is deleted)           *)
(*   "hunk"     '@@ -a,b +c,d @@'                                          *)
(*   "ctx"      ' ' followed by a line of the file                         *)
(*   "add"      '+' followed by a line that does not start with '++'       *)
(*   "del"      '-' followed by a line that does not start with '--'       *)
(*   "addpp"    '+' followed by a line that starts with '++' ('+++i;')     *)
(*   "delmm"    '-' followed by a line that starts with '--' ('--- note')  *)
(***************************************************************************)
\* Longest hunk body and largest hunk start line.
MaxBody == 3
MaxStart == 2

Files == {"x.py", "y.py"}
BodyKinds == {"ctx", "add", "del", "addpp", "delmm"}

DiffLine(k, file, old, new) == [k |-> k, file |-> file, old |-> old, new |-> new]

\* str.startswith on a line of the diff
StartsWithPlus3(l) == l.k \in {"new", "newnull", "addpp"}
StartsWithMinus3(l) == l.k \in {"old", "delmm"}
StartsWithAt2(l) == l.k = "hunk"
StartsWithDiff(l) == l.k = "diff"
StartsWithPlus(l) == l.k \in {"add", "addpp", "new", "newnull"}
StartsWithMinus(l) == l.k \in {"del", "delmm", "old"}
StartsWithSpace(l) == l.k = "ctx"
\* re.match(r'^\+\+\+\s+b/(.+)', line)
MatchesFileHeader(l) == l.k = "new"
\* hunk_re.match(line)
MatchesHunkHeader(l) == l.k = "hunk"

\* The inner while loop of _parse_hunks from line j on.  line_no is
\* old_line or new_line, edit_start is <<>> for None and <<n>> for n, out the
\* ranges appended so far; counted(l) tells the lines of the mode ('-' lines
\* in deletions-only mode, '+' lines otherwise) and skipped(l) those of the
\* other sign.
RECURSIVE HunkBody(_, _, _, _, _, _)
HunkBody(lines, j, line_no, edit_start, out, deletions_only) ==
    IF ~( /\ j <= Len(lines)
          /\ ~( \/ StartsWithAt2(lines[j])
                \/ StartsWithDiff(lines[j])
                \/ StartsWithMinus3(lines[j]) ) )
    THEN \* the run still open at the end of the hunk
         IF edit_start # <<>> THEN Append(out, <<edit_start[1], line_no - 1>>) ELSE out
    ELSE
      LET l == lines[j]
          counted == IF deletions_only
                     THEN StartsWithMinus(l) /\ ~StartsWithMinus3(l)
                     ELSE StartsWithPlus(l) /\ ~StartsWithPlus3(l)
          skipped == IF deletions_only
                     THEN StartsWithPlus(l) /\ ~StartsWithPlus3(l)
                     ELSE StartsWithMinus(l) /\ ~StartsWithMinus3(l)
      IN IF counted
         THEN HunkBody(lines, j + 1, line_no + 1,
                       IF edit_start = <<>> THEN <<line_no>> ELSE edit_start,
                       out, deletions_only)
         ELSE IF skipped
         THEN HunkBody(lines, j + 1, line_no, edit_start, out, deletions_only)
         ELSE IF StartsWithSpace(l)
         THEN HunkBody(lines, j + 1, line_no + 1, <<>>,
                       IF edit_start # <<>>
                       THEN Append(out, <<edit_start[1], line_no - 1>>)
                       ELSE out,
                       deletions_only)
         ELSE HunkBody(lines, j + 1, line_no, edit_start, out, deletions_only)

\* The outer for loop of _parse_hunks from line i on.  current_file is <<>>
\* for None; result maps every file to the ranges appended for it (a file
\* that is no key of the dict maps to the empty list).
RECURSIVE ParseLoop(_, _, _, _, _)
ParseLoop(lines, i, current_file, result, deletions_only) ==
    IF i > Len(lines) THEN result
    ELSE
      LET l == lines[i] IN
      IF StartsWithPlus3(l)
      THEN ParseLoop(lines, i + 1,
                     IF MatchesFileHeader(l) THEN <<l.file>> ELSE current_file,
                     result, deletions_only)
      ELSE IF StartsWithAt2(l) /\ current_file # <<>> /\ MatchesHunkHeader(l)
      THEN LET f == current_file[1]
               start == IF deletions_only THEN l.old ELSE l.new
           IN ParseLoop(lines, i + 1, current_file,
                        [result EXCEPT ![f] =
                            HunkBody(lines, i + 1, start, <<>>, result[f], deletions_only)],
                        deletions_only)
      ELSE ParseLoop(lines, i + 1, current_file, result, deletions_only)

\* _parse_hunks(diff_text, deletions_only), without the change_type tag
ParseHunks(lines, deletions_only) ==
    ParseLoop(lines, 1, <<>>, [f \in Files |-> <<>>], deletions_only)

\* _merge_line_intervals(intervals): the algorithm of merge
MergeLineIntervals(intervals) == Merge(intervals)

\* parse_diff_lines(diff_text, deletions_only); a file that is no key of the
\* returned dict maps to the empty list
ParseDiffLines(lines, deletions_only) ==
    LET hunks == ParseHunks(lines, deletions_only) IN
    [f \in Files |-> IF hunks[f] # <<>> THEN MergeLineIntervals(hunks[f]) ELSE <<>>]

(***************************************************************************)
(* Patches.  A patch is a sequence of file blocks; a block is the header   *)
(* of one file (hdr is the path after '+++ b/', or "null" for              *)
(* '+++ /dev/null') and its hunks; a hunk is its two start lines and the   *)
(* kinds of its body lines.                                                *)
(***************************************************************************)
Headers == Files \cup {"null"}

HunksUpTo(n) == [old : 1..MaxStart, new : 1..MaxStart, body : SeqsUpTo(BodyKinds, n)]

\* one file with one hunk, one file with two hunks, two files with one hunk each
Patches ==
    [1..1 -> [hdr : Headers, hunks : [1..1 -> HunksUpTo(MaxBody)]]]
    \cup [1..1 -> [hdr : Headers, hunks : [1..2 -> HunksUpTo(MaxBody - 1)]]]
    \cup [1..2 -> [hdr : Headers, hunks : [1..1 -> HunksUpTo(MaxBody - 1)]]]

RECURSIVE Flatten(_)
Flatten(ss) == IF ss = <<>> THEN <<>> ELSE Head(ss) \o Flatten(Tail(ss))

\* The text of a hunk, a block and a patch, as diff(1) and git write them.
HunkText(h) ==
    <<DiffLine("hunk", "", h.old, h.new)>>
    \o [k \in 1..Len(h.body) |-> DiffLine(h.body[k], "", 0, 0)]

BlockText(blk) ==
    << DiffLine("diff", "", 0, 0),
       DiffLine("old", "", 0, 0),
       IF blk.hdr = "null" THEN DiffLine("newnull", "", 0, 0)
                           ELSE DiffLine("new", blk.hdr, 0, 0) >>
    \o Flatten([k \in 1..Len(blk.hunks) |-> HunkText(blk.hunks[k])])

PatchText(patch) == Flatten([k \in 1..Len(patch) |-> BlockText(patch[k])])

CallParseDeletions ==
    /\ op = "none"
    /\ op' = "parse_diff_lines_deletions"
    /\ ret' = ParseDiffLines(PatchText(input.patch), TRUE)
    /\ UNCHANGED input

CallParseAdditions ==
    /\ op = "none"
    /\ op' = "parse_diff_lines_additions"
    /\ ret' = ParseDiffLines(PatchText(input.patch), FALSE)
    /\ UNCHANGED input

DiffInit ==
    /\ input \in [patch : Patches]
    /\ op = "none"
    /\ ret = NoRet

DiffNext == CallParseDeletions \/ CallParseAdditions

SpecDiff == DiffInit /\ [][DiffNext]_vars

\* --- what a patch says, read off its structure
IsDeleted(kind) == kind \in {"del", "delmm"}
IsAdded(kind) == kind \in {"add", "addpp"}

\* The old-file line number of body line k of hunk h: the counter starts at
\* a and advances on '-' and context lines.
OldLineNo(h, k) ==
    h.old + Cardinality({q \in 1..(k - 1) : IsDeleted(h.body[q]) \/ h.body[q] = "ctx"})

\* The new-file line number of body line k of hunk h: the counter starts at
\* c and advances on '+' and context lines.
NewLineNo(h, k) ==
    h.new + Cardinality({q \in 1..(k - 1) : IsAdded(h.body[q]) \/ h.body[q] = "ctx"})

\* The old-file line numbers of the '-' lines in the hunks of file f.
DeletedLines(patch, f) ==
    UNION { UNION { { OldLineNo(patch[bi].hunks[hi], k) :
                        k \in {q \in 1..Len(patch[bi].hunks[hi].body) :
                                  IsDeleted(patch[bi].hunks[hi].body[q])} } :
                    hi \in 1..Len(patch[bi].hunks) } :
            bi \in {q \in 1..Len(patch) : patch[q].hdr = f} }

\* The new-file line numbers of the '+' lines in the hunks of file f.
AddedLines(patch, f) ==
    UNION { UNION { { NewLineNo(patch[bi].hunks[hi], k) :
                        k \in {q \in 1..Len(patch[bi].hunks[hi].body) :
                                  IsAdded(patch[bi].hunks[hi].body[q])} } :
                    hi \in 1..Len(patch[bi].hunks) } :
            bi \in {q \in 1..Len(patch) : patch[q].hdr = f} }

\* The kinds of all body lines of a patch.
BodyKindsOf(patch) ==
    UNION { UNION { {patch[bi].hunks[hi].body[k] : k \in 1..Len(patch[bi].hunks[hi].body)} :
                    hi \in 1..Len(patch[bi].hunks) } :
            bi \in 1..Len(patch) }

HeadersOf(patch) == {patch[bi].hdr : bi \in 1..Len(patch)}

\* No added line starts with '++', no deleted line with '--', and no file is
\* deleted.
PlainPatch(patch) ==
    /\ BodyKindsOf(patch) \subseteq {"ctx", "add", "del"}
    /\ "null" \notin HeadersOf(patch)

(***************************************************************************)
(* C6: in deletions-only mode the ranges returned for a file cover exactly *)
(* the old-file line numbers of the '-' lines of that file's hunks, for    *)
(* bodies of context, '+' and '-' lines of arbitrary text; a patch with no *)
(* '-' lines yields an empty mapping.                                      *)
(***************************************************************************)
DeletionsExact ==
    op = "parse_diff_lines_deletions" =>
        \A f \in Files : Covered(ret[f]) = DeletedLines(input.patch, f)

\* The same on patches whose lines do not start with '---' or '+++' and that
\* delete no file.
DeletionsExactOnPlainPatches ==
    (op = "parse_diff_lines_deletions" /\ PlainPatch(input.patch)) =>
        \A f \in Files : Covered(ret[f]) = DeletedLines(input.patch, f)

(***************************************************************************)
(* C7: in additions mode the ranges returned for a file cover exactly the  *)
(* new-file line numbers of the '+' lines of that file's hunks, and are    *)
(* returned merged; the hunk '@@ -1,3 +1,4 @@' with body ' a', '+b', ' c'  *)
(* under '+++ b/x.py' yields {x.py: [(2,2)]}.                              *)
(***************************************************************************)
AdditionsExact ==
    op = "parse_diff_lines_additions" =>
        /\ \A f \in Files :
              /\ Covered(ret[f]) = AddedLines(input.patch, f)
              /\ \A k \in 1..(Len(ret[f]) - 1) : ret[f][k + 1][1] > ret[f][k][2] + 1
        /\ input.patch = <<[hdr |-> "x.py",
                            hunks |-> <<[old |-> 1, new |-> 1,
                                         body |-> <<"ctx", "add", "ctx">>]>>]>>
              => ret = [f \in Files |-> IF f = "x.py" THEN <<<<2, 2>>>> ELSE <<>>]

\* The same on patches whose lines do not start with '---' or '+++' and that
\* delete no file.
AdditionsExactOnPlainPatches ==
    (op = "parse_diff_lines_additions" /\ PlainPatch(input.patch)) =>
        /\ \A f \in Files :
              /\ Covered(ret[f]) = AddedLines(input.patch, f)
              /\ \A k \in 1..(Len(ret[f]) - 1) : ret[f][k + 1][1] > ret[f][k][2] + 1
        /\ input.patch = <<[hdr |-> "x.py",
                            hunks |-> <<[old |-> 1, new |-> 1,
                                         body |-> <<"ctx", "add", "ctx">>]>>]>>
              => ret = [f \in Files |-> IF f = "x.py" THEN <<<<2, 2>>>> ELSE <<>>]

(***************************************************************************)
(* src/parsers/gold.py and the edit-localization part of                   *)
(* src/evaluate.py: evaluate_instance                                      *)
(***************************************************************************)
\* Largest line number of a gold context item.
MaxGoldLine == 2

\* Paths as the gold dataset writes them, and the file deleted by a
\* '+++ /dev/null' block.
GoldPaths == {"/testbed/x.py", "y.py"}
DeletedFile == "z.py"

\* _normalize_rel_path(path_str), on the paths above
NormalizeRelPath(path) == IF path = "/testbed/x.py" THEN "x.py" ELSE path

\* {file, start_line, end_line} items of init_ctx and add_ctx
GoldItems ==
    {it \in [file : GoldPaths, start_line : 1..MaxGoldLine, end_line : 1..MaxGoldLine] :
        it.start_line <= it.end_line}

\* for item in self.init: result.setdefault(file_path, []).append(...)
RECURSIVE InitRangesOf(_, _)
InitRangesOf(items, f) ==
    IF items = <<>> THEN <<>>
    ELSE LET it == Head(items) IN
         (IF NormalizeRelPath(it.file) = f THEN <<<<it.start_line, it.end_line>>>> ELSE <<>>)
         \o InitRangesOf(Tail(items), f)

\* Gold.line_spans_init(): init_ctx only, merged per file; a file that is no
\* key of the returned dict maps to the empty list
LineSpansInit(gold) == [f \in Files |-> Merge(InitRangesOf(gold.init, f))]

\* for gold_start, gold_end in gold_ranges: if gold_start <= line_num <= gold_end
InGoldRanges(line_num, gold_ranges) ==
    \E k \in 1..Len(gold_ranges) :
        gold_ranges[k][1] <= line_num /\ line_num <= gold_ranges[k][2]

\* len(pred_lines) and len(pred_lines_in_gold) contributed by the intervals
\* of one file
RECURSIVE CountLines(_, _, _)
CountLines(intervals, gold_ranges, hits_only) ==
    IF intervals = <<>> THEN 0
    ELSE LET iv == Head(intervals) IN
         Cardinality({n \in iv[1]..iv[2] : ~hits_only \/ InGoldRanges(n, gold_ranges)})
         + CountLines(Tail(intervals), gold_ranges, hits_only)

\* sum of fn[x] over the keys x in S
RECURSIVE SumOver(_, _)
SumOver(S, fn) ==
    IF S = {} THEN 0
    ELSE LET x == CHOOSE y \in S : TRUE IN fn[x] + SumOver(S \ {x}, fn)

NoEditLoc == "no_editloc"

EditLocRecord(gold, model_patch, gold_line_spans) ==
    LET patch == IF model_patch # <<>> THEN model_patch ELSE gold.patch IN
    IF patch = <<>> THEN NoEditLoc
    ELSE
      LET pred_line_edits == ParseDiffLines(PatchText(patch), TRUE)
          PredOf == [f \in Files |-> CountLines(pred_line_edits[f], gold_line_spans[f], FALSE)]
          HitsOf == [f \in Files |-> CountLines(pred_line_edits[f], gold_line_spans[f], TRUE)]
          GoldOf == [f \in Files |-> CountLines(gold_line_spans[f], <<>>, FALSE)]
          pred_line_count == SumOver(Files, PredOf)
          hit_count == SumOver(Files, HitsOf)
      IN [recall |-> IF pred_line_count > 0 THEN Ratio(hit_count, pred_line_count) ELSE Zero,
          precision |-> IF pred_line_count > 0 THEN Ratio(hit_count, pred_line_count) ELSE Zero,
          intersection |-> hit_count,
          gold_size |-> SumOver(Files, GoldOf),
          pred_size |-> pred_line_count]

\* evaluate_instance, the "editloc" entry of its result (absent without a patch)
EditLoc(gold, model_patch) == EditLocRecord(gold, model_patch, LineSpansInit(gold))

CallEditLoc ==
    /\ op = "none"
    /\ op' = "editloc"
    /\ ret' = EditLoc(input.gold, input.model_patch)
    /\ UNCHANGED input

\* Patches that change one file in one hunk, or no patch at all.
EditPatches ==
    {<<>>} \cup
    [1..1 -> [hdr : Files,
              hunks : [1..1 -> [old : 1..MaxStart, new : {1},
                                body : SeqsUpTo(BodyKinds, MaxBody)]]]]

\* The patch of the gold record, used when the prediction carries none.
GoldPatches ==
    {<<>>, <<[hdr |-> "x.py", hunks |-> <<[old |-> 1, new |-> 1, body |-> <<"del", "add">>]>>]>>}

EditLocInit ==
    /\ input \in [model_patch : EditPatches,
                  gold : [init : SeqsUpTo(GoldItems, 2),
                          add : {<<>>, <<[file |-> "/testbed/x.py", start_line |-> 1,
                                          end_line |-> MaxGoldLine]>>},
                          patch : GoldPatches]]
    /\ op = "none"
    /\ ret = NoRet

EditLocNext == CallEditLoc

SpecEditLoc == EditLocInit /\ [][EditLocNext]_vars

\* --- what the patch and the gold record say, read off their structure
UsedPatch == IF input.model_patch # <<>> THEN input.model_patch ELSE input.gold.patch

\* The file whose lines a block changes.
BlockFile(blk) == IF blk.hdr = "null" THEN DeletedFile ELSE blk.hdr

\* (file, old-file line number) of every '-' line of the patch
AllDeletedLines(patch) ==
    UNION { UNION { { <<BlockFile(patch[bi]), OldLineNo(patch[bi].hunks[hi], k)>> :
                        k \in {q \in 1..Len(patch[bi].hunks[hi].body) :
                                  IsDeleted(patch[bi].hunks[hi].body[q])} } :
                    hi \in 1..Len(patch[bi].hunks) } :
            bi \in 1..Len(patch) }

\* the line lies inside a gold initial-context range of the same file
InGoldInit(fl) ==
    \E k \in 1..Len(input.gold.init) :
        /\ NormalizeRelPath(input.gold.init[k].file) = fl[1]
        /\ input.gold.init[k].start_line <= fl[2]
        /\ fl[2] <= input.gold.init[k].end_line

EditLocAsClaimed ==
    LET deleted == AllDeletedLines(UsedPatch)
        hits == {fl \in deleted : InGoldInit(fl)}
        score == IF deleted # {} THEN Ratio(Cardinality(hits), Cardinality(deleted)) ELSE Zero
    IN /\ ret.pred_size = Cardinality(deleted)
       /\ ret.intersection = Cardinality(hits)
       /\ ret.recall = score
       /\ ret.precision = score

(***************************************************************************)
(* C10: when a patch is available, edit-localization counts each deleted   *)
(* line of the patch once, counts it as a hit iff it lies inside a gold    *)
(* initial-context range of the same file (add_ctx is never used), and     *)
(* reports recall = precision = hits / deleted lines, 0.0 when the patch   *)
(* deletes no line.                                                        *)
(***************************************************************************)
EditLocCountsDeletedLines ==
    (op = "editloc" /\ UsedPatch # <<>>) => EditLocAsClaimed

\* The same on patches whose lines do not start with '---' or '+++' and that
\* delete no file.
EditLocCountsDeletedLinesOfPlainPatches ==
    (op = "editloc" /\ UsedPatch # <<>> /\ PlainPatch(UsedPatch)) => EditLocAsClaimed

(***************************************************************************)
(* The checked-out repository the trajectory metrics read: two files on    *)
(* disk with their definitions as the AST backend reports them             *)
(* (start_byte inclusive, end_byte exclusive); "gone.py" is a path that    *)
(* does not exist in the checkout.                                         *)
(***************************************************************************)
RepoPaths == Files \cup {"gone.py"}

FileExists(f) == f \in Files

FileContent(f) ==
    IF f = "x.py" THEN AbcFile
    ELSE IF f = "y.py" THEN <<"x", "x", "nl", "x">>
    ELSE <<>>

\* A symbol name is the sequence of its '.'-separated components.
DefRecord(kind, name, s, e) == [kind |-> kind, name |-> name, s |-> s, e |-> e]

\* extract_named_defs(abs_path): (kind, name, start_byte, end_byte)
NamedDefs(f) ==
    IF f = "x.py"
    THEN << DefRecord("function_definition", <<"f">>, 0, 4),
            DefRecord("class_definition", <<"C">>, 4, 8),
            DefRecord("function_definition", <<"m">>, 7, 8) >>
    ELSE IF f = "y.py"
    THEN << DefRecord("function_definition", <<"g">>, 0, 4) >>
    ELSE <<>>

\* extract_defs(abs_path): (kind, start_byte, end_byte)
ExtractDefs(f) == NamedDefs(f)

\* The checkout as the definition extractors see it: which paths exist and
\* what extract_named_defs / extract_defs report for each.
Checkout == [exists |-> [f \in RepoPaths |-> FileExists(f)],
             named_defs |-> [f \in RepoPaths |-> NamedDefs(f)],
             defs |-> [f \in RepoPaths |-> ExtractDefs(f)]]

(***************************************************************************)
(* src/extractors/treesitter.py: definition sets                           *)
(***************************************************************************)
\* not (def_end < span_start or def_start > span_end)
Overlaps(d, span) == ~(d.e < span[1] \/ d.s > span[2])

\* the loop over all_defs: the definitions that overlap one of the spans
DefsInSpans(f, all_defs, byte_intervals) ==
    { <<f, all_defs[d].kind, all_defs[d].s, all_defs[d].e>> :
        d \in { q \in 1..Len(all_defs) :
                  \E k \in 1..Len(byte_intervals) : Overlaps(all_defs[q], byte_intervals[k]) } }

\* extract_def_set_in_spans over a checkout; spans_by_file maps a path that
\* is no key of the dict to the empty list
ExtractDefSetInSpansIn(repo, spans_by_file) ==
    UNION { DefsInSpans(f, repo.defs[f], spans_by_file[f]) :
            f \in {g \in DOMAIN spans_by_file : spans_by_file[g] # <<>> /\ repo.exists[g]} }

\* extract_def_set_in_spans(spans_by_file, repo_dir)
ExtractDefSetInSpans(spans_by_file) == ExtractDefSetInSpansIn(Checkout, spans_by_file)

\* candidates = [sym] + [sym.split(".")[-1]] when "." in sym
CandidatesLastOnly(sym) == <<<<sym[Len(sym)]>>>>

Candidates(sym) == IF Len(sym) > 1 THEN <<sym, <<sym[Len(sym)]>>>> ELSE <<sym>>

\* by_name.get(cand): the definitions of f named cand
DefsNamed(f, named_defs, cand) ==
    { <<f, named_defs[d].kind, named_defs[d].s, named_defs[d].e>> :
        d \in {q \in 1..Len(named_defs) : named_defs[q].name = cand} }

\* the loop over candidates: the first candidate with definitions wins
RECURSIVE FirstMatch(_, _, _)
FirstMatch(f, named_defs, cands) ==
    IF cands = <<>> THEN {}
    ELSE IF DefsNamed(f, named_defs, Head(cands)) # {}
         THEN DefsNamed(f, named_defs, Head(cands))
         ELSE FirstMatch(f, named_defs, Tail(cands))

\* extract_def_set_from_symbol_names over a checkout
ExtractDefSetFromSymbolNamesIn(repo, symbols) ==
    UNION { UNION { FirstMatch(f, repo.named_defs[f], Candidates(symbols[f][k])) :
                    k \in 1..Len(symbols[f]) } :
            f \in {g \in DOMAIN symbols : symbols[g] # <<>> /\ repo.exists[g]} }

\* extract_def_set_from_symbol_names(pred_symbols_by_file, repo_dir)
ExtractDefSetFromSymbolNames(symbols) == ExtractDefSetFromSymbolNamesIn(Checkout, symbols)

(***************************************************************************)
(* src/metrics/compute.py: trajectory metrics                              *)
(***************************************************************************)
\* Longest trajectory.
MaxSteps == 3

\* Step: files, spans [{file, start_line, end_line}] and, for the agents that
\* report them, symbols {file: [name]} (the empty function when absent).
Step(files, spans, symbols) == [files |-> files, spans |-> spans, symbols |-> symbols]
LineSpan(f, s, e) == [file |-> f, start_line |-> s, end_line |-> e]
NoSymbols == <<>>

\* for span in spans: line_to_byte(...); if byte_span: result[f].append(byte_span)
RECURSIVE ByteSpansOf(_, _)
ByteSpansOf(spans, f) ==
    IF spans = <<>> THEN <<>>
    ELSE LET sp == Head(spans)
             byte_span == LineToByte(FileExists(sp.file), FileContent(sp.file),
                                     sp.start_line, sp.end_line)
         IN (IF sp.file = f /\ byte_span # None THEN <<byte_span>> ELSE <<>>)
            \o ByteSpansOf(Tail(spans), f)

\* _step_to_byte_spans(step, repo_dir); a path that is no key of the
\* returned dict maps to the empty list
StepToByteSpans(step) == [f \in RepoPaths |-> Merge(ByteSpansOf(step.spans, f))]

\* span_total_bytes(spans_by_file)
SpanTotalBytes(spans_by_file) ==
    SumOver(DOMAIN spans_by_file, [f \in DOMAIN spans_by_file |-> Length(spans_by_file[f])])

\* span_intersection_bytes(a, b)
SpanIntersectionBytes(x, y) ==
    SumOver(DOMAIN x, [f \in DOMAIN x |-> IntersectSize(x[f], y[f])])

\* the definitions of one step
StepSymbols(step, step_spans) ==
    IF DOMAIN step.symbols # {}
    THEN ExtractDefSetFromSymbolNames(step.symbols)
    ELSE ExtractDefSetInSpans(step_spans)

SeqToSet(s) == {s[k] : k \in 1..Len(s)}

\* union_files |= step_files
UnionFilesRestarted(union_files, step_files) == step_files

UnionFiles(union_files, step_files) == union_files \cup step_files

\* 1 - union / total if total > 0 else 0.0
RedundancyOfShare(union_size, total) ==
    IF total > 0 THEN Ratio(union_size, total) ELSE Zero

Redundancy(union_size, total) ==
    IF total > 0 THEN RSub(One, Ratio(union_size, total)) ELSE Zero

\* x / y if y > 0 else 1.0
CoverageOf(x, y) == IF y > 0 THEN Ratio(x, y) ELSE One

\* The for loop of compute_trajectory_metrics from step t on; st holds the
\* running unions, the summed step sizes and the per-step metrics so far.
RECURSIVE TrajectoryLoop(_, _, _, _)
TrajectoryLoop(steps, t, st, gold) ==
    IF t > Len(steps) THEN st
    ELSE
      LET step == steps[t]
          step_files == SeqToSet(step.files)
          step_spans == StepToByteSpans(step)
          step_symbols == StepSymbols(step, step_spans)
          union_files == UnionFiles(st.union_files, step_files)
          union_symbols == st.union_symbols \cup step_symbols
          union_spans == [f \in RepoPaths |->
                            IF step_spans[f] # <<>>
                            THEN Merge(st.union_spans[f] \o step_spans[f])
                            ELSE st.union_spans[f]]
          file_cov == CoverageOf(Cardinality(union_files \cap gold.files),
                                 Cardinality(gold.files))
          symbol_cov == CoverageOf(Cardinality(union_symbols \cap gold.symbols),
                                   Cardinality(gold.symbols))
          span_cov == CoverageOf(SpanIntersectionBytes(union_spans, gold.spans),
                                 SpanTotalBytes(gold.spans))
      IN TrajectoryLoop(steps, t + 1,
            [union_files |-> union_files,
             union_symbols |-> union_symbols,
             union_spans |-> union_spans,
             sum_files |-> st.sum_files + Cardinality(step_files),
             sum_symbols |-> st.sum_symbols + Cardinality(step_symbols),
             sum_spans |-> st.sum_spans + SpanTotalBytes(step_spans),
             per_step |-> Append(st.per_step,
                            [step |-> t,
                             coverage |-> [file |-> file_cov, symbol |-> symbol_cov,
                                           span |-> span_cov]])],
            gold)

\* compute_trajectory_metrics(steps, gold_files, gold_symbols, gold_spans, repo_dir)
ComputeTrajectoryMetrics(steps, gold) ==
    LET T == Len(steps) IN
    IF T = 0
    THEN [steps |-> <<>>,
          auc_coverage |-> [file |-> Zero, symbol |-> Zero, span |-> Zero],
          redundancy |-> [file |-> Zero, symbol |-> Zero, span |-> Zero]]
    ELSE
      LET st == TrajectoryLoop(steps, 1,
                  [union_files |-> {}, union_symbols |-> {},
                   union_spans |-> [f \in RepoPaths |-> <<>>],
                   sum_files |-> 0, sum_symbols |-> 0, sum_spans |-> 0,
                   per_step |-> <<>>],
                  gold)
      IN [steps |-> st.per_step,
          auc_coverage |->
             [file |-> RDivInt(RSum([k \in 1..T |-> st.per_step[k].coverage.file]), T),
              symbol |-> RDivInt(RSum([k \in 1..T |-> st.per_step[k].coverage.symbol]), T),
              span |-> RDivInt(RSum([k \in 1..T |-> st.per_step[k].coverage.span]), T)],
          redundancy |->
             [file |-> Redundancy(Cardinality(st.union_files), st.sum_files),
              symbol |-> Redundancy(Cardinality(st.union_symbols), st.sum_symbols),
              span |-> Redundancy(SpanTotalBytes(st.union_spans), st.sum_spans)]]

\* Gold.files(): the files of init + add
GoldFiles(g) ==
    {NormalizeRelPath((g.init \o g.add)[k].file) : k \in 1..Len(g.init \o g.add)}

\* Gold.byte_spans(repo_dir): merged byte intervals per file from init + add
GoldByteSpans(g) ==
    [f \in RepoPaths |->
        Merge(ByteSpansOf([k \in 1..Len(g.init \o g.add) |->
                              LineSpan(NormalizeRelPath((g.init \o g.add)[k].file),
                                       (g.init \o g.add)[k].start_line,
                                       (g.init \o g.add)[k].end_line)], f))]

\* evaluate_instance: the gold representations handed to the metrics
GoldContext(g) ==
    [files |-> GoldFiles(g),
     spans |-> GoldByteSpans(g),
     symbols |-> ExtractDefSetInSpans(GoldByteSpans(g))]

CallTrajectoryMetrics ==
    /\ op = "none"
    /\ op' = "compute_trajectory_metrics"
    /\ ret' = ComputeTrajectoryMetrics(input.steps, GoldContext(input.gold))
    /\ UNCHANGED input

\* The steps a trajectory is drawn from: the empty step, a file without a
\* line range, line ranges of one file that overlap each other, a second
\* file, a path missing from the checkout, several views in one step, and a
\* step that names its symbols.
StepChoices ==
    { Step(<<>>, <<>>, NoSymbols),
      Step(<<"x.py">>, <<>>, NoSymbols),
      Step(<<"x.py">>, <<LineSpan("x.py", 1, 2)>>, NoSymbols),
      Step(<<"x.py">>, <<LineSpan("x.py", 2, 3)>>, NoSymbols),
      Step(<<"y.py">>, <<LineSpan("y.py", 1, 1)>>, NoSymbols),
      Step(<<"gone.py">>, <<LineSpan("gone.py", 1, 1)>>, NoSymbols),
      Step(<<"x.py", "x.py", "y.py">>,
           <<LineSpan("x.py", 1, 2), LineSpan("x.py", 2, 3), LineSpan("y.py", 2, 2)>>,
           NoSymbols),
      Step(<<"x.py", "x.py">>, <<LineSpan("x.py", 1, 1)>>,
           [f \in {"x.py"} |-> <<<<"C", "m">>, <<"nope">>>>]) }

\* The context items the gold record is drawn from: init_ctx views x.py,
\* add_ctx views y.py.
TrajGoldInit ==
    { [file |-> "/testbed/x.py", start_line |-> 1, end_line |-> 1],
      [file |-> "/testbed/x.py", start_line |-> 2, end_line |-> 3] }

TrajGoldAdd == { [file |-> "y.py", start_line |-> 1, end_line |-> 2] }

TrajectoryInit ==
    /\ input \in [steps : SeqsUpTo(StepChoices, MaxSteps),
                  gold : [init : SeqsUpTo(TrajGoldInit, 1),
                          add : SeqsUpTo(TrajGoldAdd, 1),
                          patch : {<<>>}]]
    /\ op = "none"
    /\ ret = NoRet

TrajectoryNext == CallTrajectoryMetrics

SpecTrajectory == TrajectoryInit /\ [][TrajectoryNext]_vars

(***************************************************************************)
(* Trajectory metrics stated over sets: what the union of steps 1..t holds *)
(***************************************************************************)
\* the files, definitions and <<file, byte>> pairs of one step
StepSets(step) ==
    LET step_spans == StepToByteSpans(step)
    IN [file |-> SeqToSet(step.files),
        symbol |-> StepSymbols(step, step_spans),
        span |-> UNION {{<<f, b>> : b \in Covered(step_spans[f])} : f \in RepoPaths}]

\* the same of the gold context
GoldSets(g) ==
    [file |-> g.files,
     symbol |-> g.symbols,
     span |-> UNION {{<<f, b>> : b \in Covered(g.spans[f])} : f \in RepoPaths}]

Granularities == {"file", "symbol", "span"}

RECURSIVE StepSetsOf(_)
StepSetsOf(steps) ==
    IF steps = <<>> THEN <<>>
    ELSE <<StepSets(Head(steps))>> \o StepSetsOf(Tail(steps))

\* what the union of steps 1..t holds, sets being the StepSets of the steps
UnionUpTo(sets, t) ==
    [file |-> UNION {sets[k].file : k \in 1..t},
     symbol |-> UNION {sets[k].symbol : k \in 1..t},
     span |-> UNION {sets[k].span : k \in 1..t}]

SizesOf(x) ==
    [file |-> Cardinality(x.file),
     symbol |-> Cardinality(x.symbol),
     span |-> Cardinality(x.span)]

Meet(x, y) ==
    [file |-> x.file \cap y.file,
     symbol |-> x.symbol \cap y.symbol,
     span |-> x.span \cap y.span]

\* for t = 1..T: how much of gold the union of steps 1..t holds
RECURSIVE HitsUpTo(_, _, _)
HitsUpTo(sets, gold, T) ==
    IF T = 0 THEN <<>>
    ELSE Append(HitsUpTo(sets, gold, T - 1), SizesOf(Meet(UnionUpTo(sets, T), gold)))

\* for t = 1..T: the own size of step t
RECURSIVE StepSizes(_)
StepSizes(sets) ==
    IF sets = <<>> THEN <<>> ELSE <<SizesOf(Head(sets))>> \o StepSizes(Tail(sets))

RECURSIVE SumField(_, _)
SumField(s, gr) == IF s = <<>> THEN 0 ELSE Head(s)[gr] + SumField(Tail(s), gr)

CoverageAsClaimed(r, T, hits, sizes) ==
    /\ Len(r.steps) = T
    /\ \A t \in 1..T :
         /\ r.steps[t].step = t
         /\ \A gr \in Granularities :
              r.steps[t].coverage[gr] =
                 IF sizes[gr] > 0 THEN Ratio(hits[t][gr], sizes[gr]) ELSE One
    /\ \A gr \in Granularities :
         r.auc_coverage[gr] =
            IF sizes[gr] > 0 THEN Ratio(SumField(hits, gr), sizes[gr] * T) ELSE One
    /\ (T = 3 /\ \A t \in 1..3 : r.steps[t].coverage.file = One)
          => r.auc_coverage.file = One
    /\ (T = 3 /\ [t \in 1..3 |-> r.steps[t].coverage.file] = <<Zero, Zero, One>>)
          => r.auc_coverage.file = <<1, 3>>

\* C8: compute_trajectory_metrics reports, for each step index t (1-based,
\* in step order), the coverage of the union of steps 1..t against gold at
\* file, symbol and span granularity (1.0 when gold is empty), and
\* auc_coverage is the arithmetic mean of the T per-step values: with a gold
\* of size G > 0 it is (sum of the per-step hits) / (G * T). Three steps of
\* full file coverage give auc_coverage.file = 1, and file coverage 0, 0, 1
\* gives 1/3.
TrajectoryCoverage ==
    (op = "compute_trajectory_metrics" /\ Len(input.steps) >= 1) =>
        CoverageAsClaimed(ret, Len(input.steps),
                          HitsUpTo(StepSetsOf(input.steps),
                                   GoldSets(GoldContext(input.gold)),
                                   Len(input.steps)),
                          SizesOf(GoldSets(GoldContext(input.gold))))

\* A 3-step trajectory whose file coverage is 0, 0, 1 and whose last step
\* covers part of the gold bytes only.
TrajectoryCoverageWitness ==
    /\ op = "compute_trajectory_metrics"
    /\ Len(input.steps) = 3
    /\ [t \in 1..3 |-> ret.steps[t].coverage.file] = <<Zero, Zero, One>>
    /\ ret.auc_coverage.file = <<1, 3>>
    /\ ret.steps[3].coverage.span \notin {Zero, One}
    /\ ret.steps[3].coverage.symbol # Zero

RedundancyAsClaimed(r, steps, total, union) ==
    /\ \A gr \in Granularities :
         r.redundancy[gr] =
            IF SumField(total, gr) > 0
            THEN Ratio(SumField(total, gr) - union[gr], SumField(total, gr))
            ELSE Zero
    /\ (/\ Len(steps) = 3
        /\ \E f \in RepoPaths : \A t \in 1..3 : SeqToSet(steps[t].files) = {f})
          => r.redundancy.file = <<2, 3>>

\* C9: for a trajectory of at least one step, redundancy per granularity is
\* 1 - |union over all steps| / (sum of the steps' own sizes), that is
\* (sum - |union|) / sum, where a step's size is its number of distinct
\* files, of definitions, or of bytes in its merged spans; it is 0 when the
\* sum is zero. Three steps each reporting the same single file give 2/3.
TrajectoryRedundancy ==
    (op = "compute_trajectory_metrics" /\ Len(input.steps) >= 1) =>
        RedundancyAsClaimed(ret, input.steps,
                            StepSizes(StepSetsOf(input.steps)),
                            SizesOf(UnionUpTo(StepSetsOf(input.steps), Len(input.steps))))

\* Three steps that each report x.py and view overlapping line ranges of it.
TrajectoryRedundancyWitness ==
    /\ op = "compute_trajectory_metrics"
    /\ Len(input.steps) = 3
    /\ \A t \in 1..3 : SeqToSet(input.steps[t].files) = {"x.py"}
    /\ ret.redundancy.file = <<2, 3>>
    /\ ret.redundancy.span \notin {Zero, One}
    /\ ret.redundancy.symbol \notin {Zero, One}

(***************************************************************************)
(* extract_def_set_in_spans on definitions and spans of any position       *)
(***************************************************************************)
\* Bounds of the definitions and spans of the one listed file.
MaxDefByte == 3
MaxDefs == (MaxDefByte + 1) \div 2

\* _TS_AVAILABLE: the AST backend, or the regex fallback
Backends == {"ast", "fallback"}

\* What a backend reports for a definition that occupies bytes occ[1]..occ[2]:
\* the AST backend (node.start_byte, node.end_byte), the end exclusive; the
\* fallback (s, e) with e the byte before the next definition, inclusive.
ReportedDef(backend, name, occ) ==
    DefRecord("function_definition", name, occ[1],
              IF backend = "ast" THEN occ[2] + 1 ELSE occ[2])

ListedFile == "x.py"

SpansCheckout ==
    LET reported == [k \in 1..Len(input.occupied) |->
                        ReportedDef(input.backend, <<"f">>, input.occupied[k])]
    IN [exists |-> [f \in {ListedFile} |-> input.exists],
        named_defs |-> [f \in {ListedFile} |-> reported],
        defs |-> [f \in {ListedFile} |-> reported]]

CallExtractDefSetInSpans ==
    /\ op = "none"
    /\ op' = "extract_def_set_in_spans"
    /\ ret' = ExtractDefSetInSpansIn(SpansCheckout, [f \in {ListedFile} |-> input.spans])
    /\ UNCHANGED input

DefSpansInit ==
    /\ input \in [backend : Backends,
                  exists : BOOLEAN,
                  occupied : SeqsUpTo(ByteIntervals(MaxDefByte), MaxDefs),
                  spans : SeqsUpTo(ByteIntervals(MaxDefByte), MaxDefs)]
    /\ op = "none"
    /\ ret = NoRet

DefSpansNext == CallExtractDefSetInSpans

SpecDefSpans == DefSpansInit /\ [][DefSpansNext]_vars

\* the definitions that share a byte with one of the caller's intervals
DefsSharingAByte ==
    { <<ListedFile, "function_definition",
        ReportedDef(input.backend, <<"f">>, input.occupied[k]).s,
        ReportedDef(input.backend, <<"f">>, input.occupied[k]).e>> :
        k \in { q \in 1..Len(input.occupied) :
                  \E j \in 1..Len(input.spans) :
                     (input.occupied[q][1]..input.occupied[q][2]) \cap
                     (input.spans[j][1]..input.spans[j][2]) # {} } }

\* C11: extract_def_set_in_spans returns exactly the definitions of the
\* listed file that have a byte in common with one of the caller's inclusive
\* intervals (an AST definition (s, e) occupies s..e-1, a fallback definition
\* s..e), and nothing for a file missing on disk.
DefSetInSpansExact ==
    op = "extract_def_set_in_spans" =>
        ret = IF input.exists THEN DefsSharingAByte ELSE {}

\* The same on the fallback backend, whose end bytes are inclusive.
DefSetInSpansExactOnFallback ==
    (op = "extract_def_set_in_spans" /\ input.backend = "fallback") =>
        ret = IF input.exists THEN DefsSharingAByte ELSE {}

\* On the AST backend the result holds the definitions that share a byte
\* with an interval or end right before one.
DefSetInSpansOnAst ==
    (op = "extract_def_set_in_spans" /\ input.backend = "ast" /\ input.exists) =>
        /\ DefsSharingAByte \subseteq ret
        /\ \A d \in ret \ DefsSharingAByte :
              \E j \in 1..Len(input.spans) : d[4] = input.spans[j][1]

(***************************************************************************)
(* extract_def_set_from_symbol_names on any definitions and names          *)
(***************************************************************************)
\* Bounds: definitions of the file and names listed for it.
MaxNamedDefs == 3
MaxSymbols == 2

\* extracted definition names and listed symbol names, as '.'-components
DefNames == {<<"f">>, <<"m">>, <<"C", "f">>}
SymbolNames == {<<"f">>, <<"C", "f">>, <<"C", "m">>, <<"nope">>, <<"C", "nope">>}

\* the k-th definition of the file occupies bytes 2(k-1) .. 2k-1
NamesCheckout ==
    LET reported == [k \in 1..Len(input.names) |->
                        ReportedDef("ast", input.names[k], <<2 * (k - 1), 2 * k - 1>>)]
    IN [exists |-> [f \in {ListedFile} |-> input.exists],
        named_defs |-> [f \in {ListedFile} |-> reported],
        defs |-> [f \in {ListedFile} |-> reported]]

CallExtractDefSetFromSymbolNames ==
    /\ op = "none"
    /\ op' = "extract_def_set_from_symbol_names"
    /\ ret' = ExtractDefSetFromSymbolNamesIn(NamesCheckout,
                                             [f \in {ListedFile} |-> input.symbols])
    /\ UNCHANGED input

DefNamesInit ==
    /\ input \in [exists : BOOLEAN,
                  names : SeqsUpTo(DefNames, MaxNamedDefs),
                  symbols : SeqsUpTo(SymbolNames, MaxSymbols)]
    /\ op = "none"
    /\ ret = NoRet

DefNamesNext == CallExtractDefSetFromSymbolNames

SpecDefNames == DefNamesInit /\ [][DefNamesNext]_vars

\* the definitions of the file whose extracted name is name
DefsCalled(name) ==
    { <<ListedFile, "function_definition", 2 * (k - 1), 2 * k>> :
        k \in {q \in 1..Len(input.names) : input.names[q] = name} }

\* what one listed name adds
AddedFor(sym) ==
    IF DefsCalled(sym) # {} THEN DefsCalled(sym)
    ELSE IF Len(sym) > 1 THEN DefsCalled(<<sym[Len(sym)]>>)
    ELSE {}

\* C12: each listed name adds the definitions whose extracted name is the
\* whole name if there are any, and only otherwise, and only when the name
\* holds a '.', those named as the component after the last '.'; a name
\* that matches neither adds nothing.
SymbolNamesFirstMatch ==
    op = "extract_def_set_from_symbol_names" =>
        ret = IF input.exists
              THEN UNION {AddedFor(input.symbols[k]) : k \in 1..Len(input.symbols)}
              ELSE {}

\* "C.f" is listed where both a definition "C.f" and a definition "f"
\* exist, next to "C.m" which only matches by its last component.
SymbolNamesFirstMatchWitness ==
    /\ op = "extract_def_set_from_symbol_names"
    /\ input.exists
    /\ input.names = <<<<"f">>, <<"C", "f">>, <<"m">>>>
    /\ input.symbols = <<<<"C", "f">>, <<"C", "m">>>>
    /\ ret = { <<ListedFile, "function_definition", 2, 4>>,
               <<ListedFile, "function_definition", 4, 6>> }

(***************************************************************************)
(* src/parsers/trajectory.py: shell-transcript logs                        *)
(***************************************************************************)
\* Longest log, in messages.
MaxMsgs == 2

\* A shell command as the patterns of _extract_views see it: the tool, its
\* file operand and its line numbers.
Command(tool, file, a, b) == [tool |-> tool, file |-> file, a |-> a, b |-> b]

\* f.startswith('/testbed/'): f = f[9:]
StripTestbed(f) ==
    IF f = "/testbed/x.py" THEN "x.py"
    ELSE IF f = "/testbed/README" THEN "README"
    ELSE f

\* _is_source(path): a known extension, or a '/' in the path
IsSource(path) == path \in {"x.py", "y.py", "/y.py", "/testbed/x.py", "/testbed/README"}

View(file) == [file |-> file]

\* _extract_views(cmd)
ExtractViews(cmd) ==
    LET f == StripTestbed(cmd.file) IN
    IF cmd.tool \in {"sed_i", "echo", "rm"} THEN <<>>
    ELSE IF cmd.tool \in {"sed_n", "nl_sed"} /\ IsSource(f) THEN <<LineSpan(f, cmd.a, cmd.b)>>
    ELSE IF cmd.tool = "cat" /\ IsSource(f) THEN <<View(f)>>
    ELSE IF cmd.tool = "head" /\ IsSource(f) THEN <<LineSpan(f, 1, cmd.a)>>
    ELSE IF cmd.tool = "grep" /\ f \in {"x.py", "y.py"} THEN <<View(f)>>
    ELSE <<>>

\* 'start_line' in v
HasLines(v) == "start_line" \in DOMAIN v

\* A message: its role, whether its content holds a ```bash block, whether
\* the block holds COMPLETE_TASK, and the command of the block.
Message(role, bash, complete, cmd) ==
    [role |-> role, bash |-> bash, complete |-> complete, cmd |-> cmd]

\* the views of one message, <<>> when the message is skipped
ViewsOfMessage(msg) ==
    IF msg.role # "assistant" THEN <<>>
    ELSE IF ~msg.bash THEN <<>>
    ELSE IF msg.complete THEN <<>>
    ELSE ExtractViews(msg.cmd)

\* the loop over data["messages"]
RECURSIVE TrajSteps(_)
TrajSteps(messages) ==
    IF messages = <<>> THEN <<>>
    ELSE LET views == ViewsOfMessage(Head(messages)) IN
         (IF views # <<>>
          THEN <<Step([k \in 1..Len(views) |-> views[k].file],
                      SelectSeq(views, HasLines), NoSymbols)>>
          ELSE <<>>) \o TrajSteps(Tail(messages))

\* A line of the patch context: 'File: <path>', 'Lines: <a>-<b>', a 'Lines:'
\* entry without a '-' ("lines_bad"), a 'Lines:' entry whose two parts are
\* not integers ("lines_nonint"), or other text.
CtxLine(k, file, a, b) == [k |-> k, file |-> file, a |-> a, b |-> b]

\* File: path with '/testbed/' or else a leading '/' removed
CtxPath(f) ==
    IF f = "/testbed/x.py" THEN "x.py"
    ELSE IF f = "/y.py" THEN "y.py"
    ELSE f

\* _parse_patch_context(text): the loop from line i on
RECURSIVE ParsePatchContextLoop(_, _, _, _)
ParsePatchContextLoop(lines, i, current_file, spans) ==
    IF i > Len(lines) THEN spans
    ELSE IF lines[i].k = "file"
         THEN ParsePatchContextLoop(lines, i + 1, CtxPath(lines[i].file), spans)
    ELSE IF lines[i].k \in {"lines", "lines_bad", "lines_nonint"} /\ current_file # ""
         THEN ParsePatchContextLoop(lines, i + 1, current_file,
                 IF lines[i].k = "lines"
                 THEN Append(spans, LineSpan(current_file, lines[i].a, lines[i].b))
                 ELSE spans)
    ELSE ParsePatchContextLoop(lines, i + 1, current_file, spans)

ParsePatchContext(lines) == ParsePatchContextLoop(lines, 1, "", <<>>)

\* Python's string order on the paths of the model
FileRank(f) ==
    IF f = "README" THEN 1 ELSE IF f = "gone.py" THEN 2
    ELSE IF f = "x.py" THEN 3 ELSE IF f = "y.py" THEN 4 ELSE 5

FileLeq(x, y) == FileRank(x) <= FileRank(y)

\* sorted(set(...)) of file names
RECURSIVE SortedFiles(_)
SortedFiles(S) ==
    IF S = {} THEN <<>>
    ELSE LET least == CHOOSE x \in S : \A y \in S : FileLeq(x, y)
         IN <<least>> \o SortedFiles(S \ {least})

RECURSIVE AllSpans(_)
AllSpans(steps) == IF steps = <<>> THEN <<>> ELSE Head(steps).spans \o AllSpans(Tail(steps))

AllFiles(steps) == UNION {SeqToSet(steps[k].files) : k \in 1..Len(steps)}

\* the final context: the parsed patch context, or else the step union
FinalStepUnionOnly(ctx_spans, traj_steps) ==
    Step(SortedFiles(AllFiles(traj_steps)), AllSpans(traj_steps), NoSymbols)

FinalStep(ctx_spans, traj_steps) ==
    IF ctx_spans # <<>>
    THEN Step(SortedFiles({ctx_spans[k].file : k \in 1..Len(ctx_spans)}), ctx_spans, NoSymbols)
    ELSE IF traj_steps # <<>>
    THEN Step(SortedFiles(AllFiles(traj_steps)), AllSpans(traj_steps), NoSymbols)
    ELSE Step(<<>>, <<>>, NoSymbols)

\* the step list returned as the messages gave it
StepsAsParsed(traj_steps, final_step) == traj_steps

\* if not traj_steps: traj_steps = [final_step]
StepsOrFinal(traj_steps, final_step) ==
    IF traj_steps = <<>> THEN <<final_step>> ELSE traj_steps

\* parse_trajectory(data): (trajectory_steps, final_context)
ParseTrajectory(data) ==
    LET traj_steps == TrajSteps(data.messages)
        final_step == FinalStep(ParsePatchContext(data.patch_context), traj_steps)
    IN [steps |-> StepsOrFinal(traj_steps, final_step),
        final |-> final_step]

(***************************************************************************)
(* src/agents/minisweagent/extract.py                                      *)
(***************************************************************************)
\* A Python dict as the sequence of its <<key, value>> pairs in insertion
\* order; the values here are lists.
DictKeys(d) == [k \in 1..Len(d) |-> d[k][1]]

DictHas(d, key) == \E k \in 1..Len(d) : d[k][1] = key

DictGet(d, key) ==
    IF DictHas(d, key) THEN d[CHOOSE k \in 1..Len(d) : d[k][1] = key][2] ELSE <<>>

\* if key not in d: d[key] = []; then d[key].extend(items)
DictExtend(d, key, items) ==
    IF DictHas(d, key)
    THEN [k \in 1..Len(d) |-> IF d[k][1] = key THEN <<key, d[k][2] \o items>> ELSE d[k]]
    ELSE Append(d, <<key, items>>)

LineEntry(a, b) == [type |-> "line", start |-> a, end |-> b]

\* the loop over the views of one step
RECURSIVE MiniStepData(_, _)
MiniStepData(views, step_data) ==
    IF views = <<>> THEN step_data
    ELSE LET view == Head(views) IN
         MiniStepData(Tail(views),
            [files |-> Append(step_data.files, view.file),
             spans |-> IF HasLines(view)
                       THEN DictExtend(step_data.spans, view.file,
                                       <<LineEntry(view.start_line, view.end_line)>>)
                       ELSE step_data.spans])

\* the loop over data["messages"]
RECURSIVE MiniSteps(_)
MiniSteps(messages) ==
    IF messages = <<>> THEN <<>>
    ELSE LET views == ViewsOfMessage(Head(messages)) IN
         (IF views # <<>>
          THEN <<MiniStepData(views, [files |-> <<>>, spans |-> <<>>])>>
          ELSE <<>>) \o MiniSteps(Tail(messages))

\* _parse_patch_context(text) of the extractor: {file: [{type, start, end}]}
RECURSIVE MiniParsePatchContextLoop(_, _, _, _)
MiniParsePatchContextLoop(lines, i, current_file, result) ==
    IF i > Len(lines) THEN result
    ELSE IF lines[i].k = "file"
         THEN MiniParsePatchContextLoop(lines, i + 1, CtxPath(lines[i].file), result)
    ELSE IF lines[i].k = "lines" /\ current_file # ""
         THEN MiniParsePatchContextLoop(lines, i + 1, current_file,
                 DictExtend(result, current_file, <<LineEntry(lines[i].a, lines[i].b)>>))
    ELSE MiniParsePatchContextLoop(lines, i + 1, current_file, result)

MiniParsePatchContext(lines) == MiniParsePatchContextLoop(lines, 1, "", <<>>)

\* all_spans over the steps, then over the files of each step
RECURSIVE ExtendAll(_, _)
ExtendAll(d, pairs) ==
    IF pairs = <<>> THEN d
    ELSE ExtendAll(DictExtend(d, Head(pairs)[1], Head(pairs)[2]), Tail(pairs))

RECURSIVE MiniAllSpans(_, _)
MiniAllSpans(steps, all_spans) ==
    IF steps = <<>> THEN all_spans
    ELSE MiniAllSpans(Tail(steps), ExtendAll(all_spans, Head(steps).spans))

\* extract_trajectory(traj_file) of the MiniSWE-agent format
MiniExtractTrajectory(data) ==
    LET steps == MiniSteps(data.messages)
        parsed == MiniParsePatchContext(data.patch_context)
    IN IF parsed # <<>>
       THEN [pred_steps |-> steps, pred_files |-> DictKeys(parsed), pred_spans |-> parsed]
       ELSE IF steps # <<>>
       THEN [pred_steps |-> steps,
             pred_files |-> SortedFiles(AllFiles(steps)),
             pred_spans |-> MiniAllSpans(steps, <<>>)]
       ELSE [pred_steps |-> steps, pred_files |-> <<>>, pred_spans |-> <<>>]

\* --- the shell-transcript logs the two readers are run on
MaxCtxLines == 3

MsgChoices ==
    { Message("user", TRUE, FALSE, Command("cat", "x.py", 0, 0)),
      Message("assistant", FALSE, FALSE, Command("cat", "x.py", 0, 0)),
      Message("assistant", TRUE, TRUE, Command("cat", "x.py", 0, 0)),
      Message("assistant", TRUE, FALSE, Command("sed_n", "/testbed/x.py", 1, 2)),
      Message("assistant", TRUE, FALSE, Command("cat", "y.py", 0, 0)),
      Message("assistant", TRUE, FALSE, Command("head", "x.py", 3, 0)),
      Message("assistant", TRUE, FALSE, Command("sed_i", "x.py", 0, 0)),
      Message("assistant", TRUE, FALSE, Command("cat", "README", 0, 0)) }

CtxLineChoices ==
    { CtxLine("file", "/testbed/x.py", 0, 0),
      CtxLine("file", "/y.py", 0, 0),
      CtxLine("lines", "", 2, 3),
      CtxLine("lines_bad", "", 0, 0),
      CtxLine("lines_nonint", "", 0, 0),
      CtxLine("text", "", 0, 0) }

CallParseTrajectory ==
    /\ op = "none"
    /\ op' = "parse_trajectory"
    /\ ret' = ParseTrajectory(input)
    /\ UNCHANGED input

CallMiniExtractTrajectory ==
    /\ op = "none"
    /\ op' = "minisweagent_extract_trajectory"
    /\ ret' = MiniExtractTrajectory(input)
    /\ UNCHANGED input

ShellLogInit ==
    /\ input \in [messages : SeqsUpTo(MsgChoices, MaxMsgs),
                  patch_context : SeqsUpTo(CtxLineChoices, MaxCtxLines)]
    /\ op = "none"
    /\ ret = NoRet

ShellLogNext == CallParseTrajectory \/ CallMiniExtractTrajectory

SpecShellLog == ShellLogInit /\ [][ShellLogNext]_vars

\* --- the log read off directly
\* the assistant turns that view a file, in log order
ViewsAFile(msg) ==
    /\ msg.role = "assistant" /\ msg.bash /\ ~msg.complete
    /\ ExtractViews(msg.cmd) # <<>>

ViewTurns(messages) == SelectSeq(messages, ViewsAFile)

\* the File/Lines pairs of the patch context: every well-formed Lines entry
\* that follows a File entry, with the nearest File entry before it
FileOf(lines, i) ==
    CtxPath(lines[CHOOSE j \in 1..(i - 1) :
                     /\ lines[j].k = "file"
                     /\ \A m \in (j + 1)..(i - 1) : lines[m].k # "file"].file)

IsPair(lines, i) == lines[i].k = "lines" /\ \E j \in 1..(i - 1) : lines[j].k = "file"

RECURSIVE CtxPairsFrom(_, _)
CtxPairsFrom(lines, i) ==
    IF i > Len(lines) THEN <<>>
    ELSE (IF IsPair(lines, i)
          THEN <<LineSpan(FileOf(lines, i), lines[i].a, lines[i].b)>>
          ELSE <<>>) \o CtxPairsFrom(lines, i + 1)

CtxPairs(lines) == CtxPairsFrom(lines, 1)

\* the line ranges a turn views
RangesOfTurn(msg) == SelectSeq(ExtractViews(msg.cmd), HasLines)

RECURSIVE RangesOfTurns(_)
RangesOfTurns(turns) ==
    IF turns = <<>> THEN <<>> ELSE RangesOfTurn(Head(turns)) \o RangesOfTurns(Tail(turns))

FilesOfTurns(turns) ==
    UNION {{ExtractViews(turns[k].cmd)[v].file : v \in 1..Len(ExtractViews(turns[k].cmd))} :
           k \in 1..Len(turns)}

FilesOfSpans(spans) == {spans[k].file : k \in 1..Len(spans)}

\* the ranges of file f among spans, as the extractor's entries
RECURSIVE EntriesOf(_, _)
EntriesOf(spans, f) ==
    IF spans = <<>> THEN <<>>
    ELSE (IF Head(spans).file = f
          THEN <<LineEntry(Head(spans).start_line, Head(spans).end_line)>>
          ELSE <<>>) \o EntriesOf(Tail(spans), f)

\* pred_files / pred_spans hold exactly the files fs and the spans
MiniContextIs(r, fs, spans) ==
    /\ SeqToSet(r.pred_files) = fs
    /\ SeqToSet(DictKeys(r.pred_spans)) = FilesOfSpans(spans)
    /\ \A f \in FilesOfSpans(spans) : DictGet(r.pred_spans, f) = EntriesOf(spans, f)

ShellLogAsClaimed(r, turns, pairs) ==
    /\ op = "parse_trajectory" =>
          /\ pairs # <<>> =>
                SeqToSet(r.final.files) = FilesOfSpans(pairs) /\ r.final.spans = pairs
          /\ pairs = <<>> =>
                /\ SeqToSet(r.final.files) = FilesOfTurns(turns)
                /\ r.final.spans = RangesOfTurns(turns)
          /\ turns # <<>> =>
                /\ Len(r.steps) = Len(turns)
                /\ \A k \in 1..Len(turns) :
                      /\ SeqToSet(r.steps[k].files) = FilesOfTurns(<<turns[k]>>)
                      /\ r.steps[k].spans = RangesOfTurn(turns[k])
    /\ op = "minisweagent_extract_trajectory" =>
          /\ pairs # <<>> => MiniContextIs(r, FilesOfSpans(pairs), pairs)
          /\ pairs = <<>> => MiniContextIs(r, FilesOfTurns(turns), RangesOfTurns(turns))
          /\ Len(r.pred_steps) = Len(turns)
          /\ \A k \in 1..Len(turns) :
                /\ SeqToSet(r.pred_steps[k].files) = FilesOfTurns(<<turns[k]>>)
                /\ \A f \in FilesOfTurns(<<turns[k]>>) :
                      DictGet(r.pred_steps[k].spans, f) = EntriesOf(RangesOfTurn(turns[k]), f)

\* C13: for a shell-transcript log, when the patch context yields a
\* File/Lines pair the final context is exactly the files and spans of the
\* pairs, whatever the steps; otherwise its files are the union of the steps'
\* files and its spans all the steps' spans; the steps are those of the
\* assistant turns that view a file, in the order of the turns.
ShellLogFinalContext ==
    op # "none" =>
        ShellLogAsClaimed(ret, ViewTurns(input.messages), CtxPairs(input.patch_context))

\* A log whose turns view y.py and x.py while the patch context selects
\* lines of x.py only.
ShellLogFinalContextWitness ==
    /\ op = "parse_trajectory"
    /\ Len(ret.steps) = 2
    /\ ret.steps[1].files = <<"y.py">>
    /\ ret.steps[2].files = <<"x.py">>
    /\ Len(input.patch_context) = 3
    /\ ret.final = Step(<<"x.py">>, <<LineSpan("x.py", 2, 3)>>, NoSymbols)

(***************************************************************************)
(* src/agents/sweagent/extract.py: checkpoint logs                         *)
(***************************************************************************)
\* Longest checkpoint log, in lines.
MaxRecords == 3

\* An exception leaving the function.
Raises(what) == [raises |-> what]
Raised(r) == "raises" \in DOMAIN r

\* An action string: a structured view command with a line range ("view_range"),
\* one without ("view"), or anything else.
Action(kind, file, a, b) == [kind |-> kind, file |-> file, a |-> a, b |-> b]

NoView == "None"

\* extract_view_command(action)
ExtractViewCommand(action) ==
    IF action.kind \notin {"view", "view_range"} THEN NoView
    ELSE IF action.kind = "view_range" /\ action.a # 0 /\ action.b # 0
         THEN <<action.file, action.a, action.b>>
         ELSE <<action.file, 1, -1>>

\* _normalize_file_path(file_path)
NormalizeFilePath(f) == CtxPath(f)

\* if key not in d: d[key] = []
DictTouch(d, key) == IF DictHas(d, key) THEN d ELSE Append(d, <<key, <<>>>>)

\* parse_patch_context(patch_context_str): the loop from line i on; the
\* outcome is the dict, or the ValueError of int() / of the unpacking
RECURSIVE SweParsePatchContextLoop(_, _, _, _)
SweParsePatchContextLoop(lines, i, current_file, files) ==
    IF i > Len(lines) THEN [raised |-> FALSE, files |-> files]
    ELSE IF lines[i].k = "file"
         THEN SweParsePatchContextLoop(lines, i + 1, NormalizeFilePath(lines[i].file),
                                       DictTouch(files, NormalizeFilePath(lines[i].file)))
    ELSE IF lines[i].k = "lines" /\ current_file # ""
         THEN SweParsePatchContextLoop(lines, i + 1, current_file,
                 DictExtend(files, current_file, <<LineEntry(lines[i].a, lines[i].b)>>))
    ELSE IF lines[i].k = "lines_nonint" /\ current_file # ""
         THEN [raised |-> TRUE, files |-> <<>>]
    ELSE SweParsePatchContextLoop(lines, i + 1, current_file, files)

SweParsePatchContext(lines) == SweParsePatchContextLoop(lines, 1, "", <<>>)

\* A line of the checkpoint file: blank, not valid JSON, a record of type
\* patch_context, or a record with an action.
Record(kind, action, patch_context) ==
    [kind |-> kind, action |-> action, patch_context |-> patch_context]

\* final_context: None, or {files, spans}
NoFinal == [some |-> FALSE, files |-> <<>>, spans |-> <<>>]

\* with start_line > 0 and end_line > 0: the step the record produces
SweStep(view_result) ==
    IF view_result[2] > 0 /\ view_result[3] > 0
    THEN << [files |-> <<NormalizeFilePath(view_result[1])>>,
             spans |-> << <<NormalizeFilePath(view_result[1]),
                            <<LineEntry(view_result[2], view_result[3])>>>> >>] >>
    ELSE <<>>

\* the result once every line is read
SweResult(steps, final_context) ==
    IF final_context.some
    THEN [pred_steps |-> steps,
          pred_files |-> final_context.files,
          pred_spans |-> final_context.spans]
    ELSE IF steps # <<>>
    THEN [pred_steps |-> steps,
          pred_files |-> steps[Len(steps)].files,
          pred_spans |-> steps[Len(steps)].spans]
    ELSE [pred_steps |-> steps, pred_files |-> <<>>, pred_spans |-> <<>>]

\* extract_trajectory(checkpoint_file): the loop over the lines from i on
RECURSIVE SweLoop(_, _, _, _)
SweLoop(records, i, steps, final_context) ==
    IF i > Len(records) THEN SweResult(steps, final_context)
    ELSE LET rec == records[i] IN
         IF rec.kind = "blank" THEN SweLoop(records, i + 1, steps, final_context)
         ELSE IF rec.kind = "invalid_json" THEN Raises("JSONDecodeError")
         ELSE IF rec.kind = "patch_context"
         THEN IF rec.patch_context # <<>>
              THEN LET parsed == SweParsePatchContext(rec.patch_context) IN
                   IF parsed.raised THEN Raises("ValueError")
                   ELSE SweLoop(records, i + 1, steps,
                                [some |-> TRUE, files |-> DictKeys(parsed.files),
                                 spans |-> parsed.files])
              ELSE SweLoop(records, i + 1, steps, final_context)
         ELSE LET view_result == ExtractViewCommand(rec.action) IN
              IF view_result # NoView
              THEN SweLoop(records, i + 1, steps \o SweStep(view_result), final_context)
              ELSE SweLoop(records, i + 1, steps, final_context)

SweExtractTrajectory(records) == SweLoop(records, 1, <<>>, NoFinal)

CallSweExtractTrajectory ==
    /\ op = "none"
    /\ op' = "sweagent_extract_trajectory"
    /\ ret' = SweExtractTrajectory(input.records)
    /\ UNCHANGED input

NoAction == Action("other", "", 0, 0)

RecordChoices ==
    { Record("blank", NoAction, <<>>),
      Record("invalid_json", NoAction, <<>>),
      Record("step", NoAction, <<>>),
      Record("step", Action("view", "/testbed/x.py", 0, 0), <<>>),
      Record("step", Action("view_range", "/testbed/x.py", 1, 2), <<>>),
      Record("step", Action("view_range", "/y.py", 2, 3), <<>>),
      Record("patch_context", NoAction, <<>>),
      Record("patch_context", NoAction,
             <<CtxLine("file", "/y.py", 0, 0), CtxLine("lines", "", 2, 3),
               CtxLine("lines_bad", "", 0, 0)>>),
      Record("patch_context", NoAction,
             <<CtxLine("file", "/y.py", 0, 0), CtxLine("lines_nonint", "", 0, 0),
               CtxLine("file", "/testbed/x.py", 0, 0), CtxLine("lines", "", 2, 3)>>) }

SweLogInit ==
    /\ input \in [records : SeqsUpTo(RecordChoices, MaxRecords)]
    /\ op = "none"
    /\ ret = NoRet

SweLogNext == CallSweExtractTrajectory

SpecSweLog == SweLogInit /\ [][SweLogNext]_vars

\* --- the checkpoint log read off directly
IsMalformedEntry(line) == line.k = "lines_nonint"

IsMalformedRecord(rec) == rec.kind = "invalid_json"

\* no line of the log and no entry of a patch context is malformed
WellFormedLog(records) ==
    \A k \in 1..Len(records) :
        /\ ~IsMalformedRecord(records[k])
        /\ \A j \in 1..Len(records[k].patch_context) :
              ~IsMalformedEntry(records[k].patch_context[j])

\* a record that is not of type patch_context and whose action is a
\* structured view command, with or without a line range
IsViewRecord(rec) == rec.kind = "step" /\ rec.action.kind \in {"view", "view_range"}

IsRangedViewRecord(rec) == rec.kind = "step" /\ rec.action.kind = "view_range"

StepsFollow(r, viewing) ==
    /\ Len(r.pred_steps) = Len(viewing)
    /\ \A k \in 1..Len(viewing) :
          r.pred_steps[k].files = <<CtxPath(viewing[k].action.file)>>

\* C14: in the checkpoint-log variant every record that is not of type
\* patch_context and whose action is a structured view command, with or
\* without a line range, produces exactly one Step, in record order, and no
\* other record produces a Step.
CheckpointStepPerView ==
    (op = "sweagent_extract_trajectory" /\ WellFormedLog(input.records)) =>
        StepsFollow(ret, SelectSeq(input.records, IsViewRecord))

\* What holds instead: one Step per view command that carries a line range.
CheckpointStepPerRangedView ==
    (op = "sweagent_extract_trajectory" /\ WellFormedLog(input.records)) =>
        StepsFollow(ret, SelectSeq(input.records, IsRangedViewRecord))

\* the patch_context records that carry a patch context
SuppliesContext(rec) == rec.kind = "patch_context" /\ rec.patch_context # <<>>

FileEntries(lines) == {CtxPath(lines[j].file) : j \in {q \in 1..Len(lines) : lines[q].k = "file"}}

\* pred_files / pred_spans are what the patch context lines supply
FinalIsRecord(r, lines) ==
    /\ SeqToSet(r.pred_files) = FileEntries(lines)
    /\ \A f \in FileEntries(lines) : DictGet(r.pred_spans, f) = EntriesOf(CtxPairs(lines), f)

\* pred_files / pred_spans are the deduplicated union of the steps
FinalIsUnionOf(r, steps) ==
    /\ SeqToSet(r.pred_files) = AllFiles(steps)
    /\ Len(r.pred_files) = Cardinality(AllFiles(steps))
    /\ \A f \in AllFiles(steps) :
          SeqToSet(DictGet(r.pred_spans, f)) =
             UNION {SeqToSet(DictGet(steps[k].spans, f)) : k \in 1..Len(steps)}

FinalIsLastOf(r, steps) ==
    IF steps = <<>> THEN r.pred_files = <<>> /\ r.pred_spans = <<>>
    ELSE r.pred_files = steps[Len(steps)].files /\ r.pred_spans = steps[Len(steps)].spans

\* C15: in the checkpoint-log variant, without a patch_context record the
\* final context is the deduplicated union of the files and spans of all
\* Steps; with one it is exactly what that record supplies.
CheckpointFinalContext ==
    (op = "sweagent_extract_trajectory" /\ WellFormedLog(input.records)) =>
        LET supplying == SelectSeq(input.records, SuppliesContext) IN
        IF supplying = <<>>
        THEN FinalIsUnionOf(ret, ret.pred_steps)
        ELSE FinalIsRecord(ret, supplying[Len(supplying)].patch_context)

\* What holds instead: without a patch context the final context is the
\* last Step alone.
CheckpointFinalIsLastStep ==
    (op = "sweagent_extract_trajectory" /\ WellFormedLog(input.records)) =>
        LET supplying == SelectSeq(input.records, SuppliesContext) IN
        IF supplying = <<>>
        THEN FinalIsLastOf(ret, ret.pred_steps)
        ELSE FinalIsRecord(ret, supplying[Len(supplying)].patch_context)

\* the log without its malformed lines and entries
WithoutMalformedEntries(rec) ==
    [rec EXCEPT !.patch_context = SelectSeq(rec.patch_context,
                                            LAMBDA l : ~IsMalformedEntry(l))]

WithoutMalformed(records) ==
    LET kept == SelectSeq(records, LAMBDA rec : ~IsMalformedRecord(rec))
    IN [k \in 1..Len(kept) |-> WithoutMalformedEntries(kept[k])]

\* C16: a malformed record inside a multi-record log (a checkpoint line that
\* is not valid JSON, a 'Lines:' entry that is not two integers) is skipped
\* and the remaining records are still processed: the normalizer does not
\* fail and returns what it returns for the log without the malformed parts.
MalformedRecordsSkipped ==
    op = "sweagent_extract_trajectory" =>
        /\ ~Raised(ret)
        /\ ret = SweExtractTrajectory(WithoutMalformed(input.records))

\* The shell-transcript readers do skip a malformed 'Lines:' entry.
MalformedEntriesSkippedInShellLog ==
    LET cleaned == [input EXCEPT !.patch_context =
                       SelectSeq(input.patch_context, LAMBDA l : l.k # "lines_nonint")]
    IN /\ op = "parse_trajectory" => ret = ParseTrajectory(cleaned)
       /\ op = "minisweagent_extract_trajectory" => ret = MiniExtractTrajectory(cleaned)

(***************************************************************************)
(* src/evaluate.py: evaluate_instance                                      *)
(***************************************************************************)
\* compute_granularity_metrics(pred_files, pred_defs, pred_spans,
\*                             gold_files, gold_defs, gold_spans)
GranularityEntry(pred_size, gold_size, inter) ==
    [coverage |-> CoveragePrecision(pred_size, gold_size, inter).cov,
     precision |-> CoveragePrecision(pred_size, gold_size, inter).prec,
     intersection |-> inter, gold_size |-> gold_size, pred_size |-> pred_size]

ComputeGranularityMetrics(pred, gold) ==
    [file |-> GranularityEntry(Cardinality(pred.files), Cardinality(gold.files),
                               Cardinality(pred.files \cap gold.files)),
     symbol |-> GranularityEntry(Cardinality(pred.symbols), Cardinality(gold.symbols),
                                 Cardinality(pred.symbols \cap gold.symbols)),
     span |-> GranularityEntry(SpanTotalBytes(pred.spans), SpanTotalBytes(gold.spans),
                               SpanIntersectionBytes(pred.spans, gold.spans))]

\* A prediction record; a key the record does not carry reads as its
\* default: no messages, no patch context, no pred_* entries, no patch.
PredData(messages, patch_context, pred_steps, pred_files, pred_spans, model_patch) ==
    [messages |-> messages, patch_context |-> patch_context,
     pred_steps |-> pred_steps, pred_files |-> pred_files, pred_spans |-> pred_spans,
     model_patch |-> model_patch]

\* the error decided before any metric is computed, "" when there is none
ErrorOfContextFirst(checkout_ok, final_step) ==
    IF final_step.files = <<>> /\ final_step.spans = <<>> THEN "no_context_extracted"
    ELSE IF ~checkout_ok THEN "checkout_failed"
    ELSE ""

ErrorOf(checkout_ok, final_step) ==
    IF ~checkout_ok THEN "checkout_failed"
    ELSE IF final_step.files = <<>> /\ final_step.spans = <<>> THEN "no_context_extracted"
    ELSE ""

\* lines 62-82: the final and the trajectory metrics
MetricsOf(instance_id, steps, final_step, final_spans, g) ==
    [instance_id |-> instance_id,
     num_steps |-> Len(steps),
     final |-> ComputeGranularityMetrics(
                   [files |-> SeqToSet(final_step.files),
                    spans |-> final_spans,
                    symbols |-> StepSymbols(final_step, final_spans)], g),
     trajectory |-> ComputeTrajectoryMetrics(steps, g)]

\* lines 84-141: the editloc entry, added when there is a patch to read
AttachEditLoc(results, gold, model_patch) ==
    IF model_patch # <<>> \/ gold.patch # <<>>
    THEN results @@ [editloc |-> EditLoc(gold, model_patch)]
    ELSE results

\* lines 50-143, once the trajectory is parsed
EvaluateParsed(instance_id, gold, pred_data, checkout_ok, parsed) ==
    IF ErrorOf(checkout_ok, parsed.final) # ""
    THEN [instance_id |-> instance_id, error |-> ErrorOf(checkout_ok, parsed.final)]
    ELSE AttachEditLoc(MetricsOf(instance_id, parsed.steps, parsed.final,
                                 StepToByteSpans(parsed.final), GoldContext(gold)),
                       gold, pred_data.model_patch)

\* evaluate_instance(instance_id, gold, pred_data, cache_dir); checkout_ok
\* says whether checkout returned an existing directory
EvaluateInstance(instance_id, gold, pred_data, checkout_ok) ==
    EvaluateParsed(instance_id, gold, pred_data, checkout_ok, ParseTrajectory(pred_data))

CallEvaluateInstance ==
    /\ op = "none"
    /\ op' = "evaluate_instance"
    /\ ret' = EvaluateInstance("i1", input.gold, input.pred, input.checkout_ok)
    /\ UNCHANGED input

\* --- the prediction records evaluate_instance is run on
ShellContexts ==
    { <<>>,
      <<CtxLine("file", "/testbed/x.py", 0, 0), CtxLine("lines", "", 2, 3)>>,
      <<CtxLine("file", "/y.py", 0, 0), CtxLine("lines_bad", "", 0, 0)>> }

ShellPreds ==
    { PredData(m, c, <<>>, <<>>, <<>>, p) :
        m \in SeqsUpTo(MsgChoices, MaxMsgs), c \in ShellContexts, p \in GoldPatches }

NormalizedStep(files, spans) == [files |-> files, spans |-> spans, symbols |-> <<>>]

NormalizedPreds ==
    { PredData(<<>>, <<>>, <<>>, <<>>, <<>>, <<>>),
      PredData(<<>>, <<>>,
               <<NormalizedStep(<<"x.py">>, << <<"x.py", <<LineEntry(1, 2)>>>> >>)>>,
               <<"x.py">>, << <<"x.py", <<LineEntry(1, 2)>>>> >>, <<>>),
      PredData(<<>>, <<>>,
               <<NormalizedStep(<<"y.py">>, <<>>),
                 NormalizedStep(<<"x.py">>, << <<"x.py", <<LineEntry(2, 3)>>>> >>)>>,
               <<"x.py", "y.py">>, << <<"x.py", <<LineEntry(2, 3)>>>> >>, <<>>) }

EvaluateInit ==
    /\ input \in [checkout_ok : BOOLEAN,
                  pred : ShellPreds \cup NormalizedPreds,
                  gold : [init : SeqsUpTo(TrajGoldInit, 1),
                          add : SeqsUpTo(TrajGoldAdd, 1),
                          patch : {<<>>}]]
    /\ op = "none"
    /\ ret = NoRet

EvaluateNext == CallEvaluateInstance

SpecEvaluate == EvaluateInit /\ [][EvaluateNext]_vars

\* --- what the prediction record holds, read off the record itself
HasError(r) == "error" \in DOMAIN r

IsPreNormalized(pred) == pred.pred_files # <<>>

\* neither a File/Lines pair in the patch context nor a turn viewing a file
NoContext(pred) ==
    CtxPairs(pred.patch_context) = <<>> /\ ViewTurns(pred.messages) = <<>>

\* C17: a pre-normalized prediction record with a non-empty pred_files is
\* evaluated, not rejected: its pred_steps are the Steps, its pred_files the
\* files of the final context, and the result carries final and trajectory
\* metrics instead of an error.
PreNormalizedRecordEvaluated ==
    (op = "evaluate_instance" /\ input.checkout_ok /\ IsPreNormalized(input.pred)) =>
        /\ ~HasError(ret)
        /\ {"final", "trajectory"} \subseteq DOMAIN ret
        /\ ret.num_steps = Len(input.pred.pred_steps)
        /\ ret.final.file.pred_size = Cardinality(SeqToSet(input.pred.pred_files))

\* What the code does with such a record: parse_trajectory reads messages and
\* the patch context only, finds neither, and the instance is an error.
PreNormalizedRecordRejected ==
    (op = "evaluate_instance" /\ input.checkout_ok /\ IsPreNormalized(input.pred)) =>
        ret = [instance_id |-> "i1", error |-> "no_context_extracted"]

MaxResults == 3

RECURSIVE SumFinal(_, _, _)
\* sum(r["final"][gran][field] for r in valid)
SumFinal(valid, gran, field) ==
    IF valid = <<>> THEN 0
    ELSE Head(valid).final[gran][field] + SumFinal(Tail(valid), gran, field)

RECURSIVE TrajVals(_, _, _)
\* [r["trajectory"][metric][gran] for r in valid]
TrajVals(valid, metric, gran) ==
    IF valid = <<>> THEN <<>>
    ELSE <<Head(valid).trajectory[metric][gran]>> \o TrajVals(Tail(valid), metric, gran)

RECURSIVE FinalRatios(_, _, _)
FinalRatios(valid, gran, field) ==
    IF valid = <<>> THEN <<>>
    ELSE <<Head(valid).final[gran][field]>> \o FinalRatios(Tail(valid), gran, field)

\* the final metrics of one granularity averaged ratio by ratio
MicroAverageOfRatios(valid, gran) ==
    [coverage |-> RDivInt(RSum(FinalRatios(valid, gran, "coverage")), Len(valid)),
     precision |-> RDivInt(RSum(FinalRatios(valid, gran, "precision")), Len(valid))]

\* the final metrics of one granularity: sizes summed, then divided
MicroAverage(valid, gran) ==
    LET intersection == SumFinal(valid, gran, "intersection")
        gold_size == SumFinal(valid, gran, "gold_size")
        pred_size == SumFinal(valid, gran, "pred_size")
    IN [coverage |-> CoveragePrecision(pred_size, gold_size, intersection).cov,
        precision |-> CoveragePrecision(pred_size, gold_size, intersection).prec]

\* sum(vals) / len(vals)
MacroAverage(vals) == RDivInt(RSum(vals), Len(vals))

HasEditLoc(r) == "editloc" \in DOMAIN r

RECURSIVE SumEditLoc(_, _)
\* sum(r.get("editloc", {}).get(field, 0) for r in valid)
SumEditLoc(valid, field) ==
    IF valid = <<>> THEN 0
    ELSE (IF HasEditLoc(Head(valid)) THEN Head(valid).editloc[field] ELSE 0)
         + SumEditLoc(Tail(valid), field)

IsValid(r) == ~HasError(r)

\* aggregate_results(results); agg[f"final_{gran}"] is agg.final[gran], and
\* likewise traj_auc and traj_redundancy
AggregateResults(results) ==
    LET valid == SelectSeq(results, IsValid)
        agg == [num_valid |-> Len(valid), num_total |-> Len(results),
                final |-> [gran \in Granularities |-> MicroAverage(valid, gran)],
                traj_auc |-> [gran \in Granularities |->
                                 MacroAverage(TrajVals(valid, "auc_coverage", gran))],
                traj_redundancy |-> [gran \in Granularities |->
                                        MacroAverage(TrajVals(valid, "redundancy", gran))]]
        editloc == CoveragePrecision(SumEditLoc(valid, "pred_size"),
                                     SumEditLoc(valid, "gold_size"),
                                     SumEditLoc(valid, "intersection"))
    IN IF valid = <<>> THEN [num_valid |-> 0, num_total |-> Len(results)]
       ELSE IF \E k \in 1..Len(valid) : HasEditLoc(valid[k])
       THEN agg @@ [editloc |-> [recall |-> editloc.cov, precision |-> editloc.prec]]
       ELSE agg

CallAggregateResults ==
    /\ op = "none"
    /\ op' = "aggregate_results"
    /\ ret' = AggregateResults(input)
    /\ UNCHANGED input

\* --- results as evaluate_instance returns them
ErrorResult(error) == [instance_id |-> "i1", error |-> error]

EveryGranularity(x) == [gran \in Granularities |-> x]

ValidResult(final, auc, redundancy) ==
    [instance_id |-> "i1", num_steps |-> 1, final |-> final,
     trajectory |-> [steps |-> <<>>, auc_coverage |-> auc, redundancy |-> redundancy]]

WithEditLoc(r, pred_size, gold_size, inter) ==
    r @@ [editloc |-> [recall |-> Zero, precision |-> Zero, intersection |-> inter,
                       gold_size |-> gold_size, pred_size |-> pred_size]]

ResultChoices ==
    { ErrorResult("checkout_failed"),
      ErrorResult("no_context_extracted"),
      ValidResult(EveryGranularity(GranularityEntry(1, 1, 1)),
                  EveryGranularity(One), EveryGranularity(Zero)),
      ValidResult([file |-> GranularityEntry(1, 3, 0),
                   symbol |-> GranularityEntry(0, 0, 0),
                   span |-> GranularityEntry(4, 6, 2)],
                  EveryGranularity(Ratio(1, 3)), EveryGranularity(Ratio(1, 2))),
      WithEditLoc(ValidResult([file |-> GranularityEntry(2, 1, 1),
                               symbol |-> GranularityEntry(0, 2, 0),
                               span |-> GranularityEntry(0, 5, 0)],
                              [file |-> One, symbol |-> Zero, span |-> Ratio(1, 2)],
                              EveryGranularity(Zero)),
                  2, 3, 1),
      WithEditLoc(ValidResult(EveryGranularity(GranularityEntry(2, 2, 1)),
                              EveryGranularity(Ratio(1, 2)),
                              [file |-> Ratio(1, 2), symbol |-> Zero, span |-> Ratio(1, 3)]),
                  0, 1, 0) }

AggregateInit ==
    /\ input \in SeqsUpTo(ResultChoices, MaxResults)
    /\ op = "none"
    /\ ret = NoRet

AggregateNext == CallAggregateResults

SpecAggregate == AggregateInit /\ [][AggregateNext]_vars

\* --- the statistics, read off the list of results
NonError(results) == {i \in 1..Len(results) : ~HasError(results[i])}

SizeSum(results, gran, field) ==
    SumOver(NonError(results), [i \in 1..Len(results) |->
                IF HasError(results[i]) THEN 0 ELSE results[i].final[gran][field]])

RECURSIVE RatSumOver(_, _, _, _)
RatSumOver(S, results, metric, gran) ==
    IF S = {} THEN Zero
    ELSE LET i == CHOOSE j \in S : TRUE
         IN RAdd(results[i].trajectory[metric][gran],
                 RatSumOver(S \ {i}, results, metric, gran))

\* x = n / d for d > 0
IsQuotient(x, n, d) == x[1] * d = n * x[2]

\* x * n = total
IsMeanOf(x, total, n) == x[1] * n * total[2] = total[1] * x[2]

AggregateAsClaimed(agg, results, nonerr) ==
    /\ agg.num_total = Len(results)
    /\ agg.num_valid = Cardinality(nonerr)
    /\ nonerr = {} => DOMAIN agg = {"num_valid", "num_total"}
    /\ nonerr # {} =>
          \A gran \in Granularities :
              /\ SizeSum(results, gran, "gold_size") > 0 =>
                    IsQuotient(agg.final[gran].coverage,
                               SizeSum(results, gran, "intersection"),
                               SizeSum(results, gran, "gold_size"))
              /\ SizeSum(results, gran, "pred_size") > 0 =>
                    IsQuotient(agg.final[gran].precision,
                               SizeSum(results, gran, "intersection"),
                               SizeSum(results, gran, "pred_size"))
              /\ IsMeanOf(agg.traj_auc[gran],
                          RatSumOver(nonerr, results, "auc_coverage", gran),
                          Cardinality(nonerr))
              /\ IsMeanOf(agg.traj_redundancy[gran],
                          RatSumOver(nonerr, results, "redundancy", gran),
                          Cardinality(nonerr))

\* C19: per granularity the aggregate's final coverage is the sum of the
\* intersections over the sum of the gold sizes, and its precision the sum
\* of the intersections over the sum of the predicted sizes, of the
\* non-error results; AUC and redundancy are the plain means over the
\* non-error results; num_total counts every result and num_valid the
\* non-error ones, which alone enter the statistics.
AggregateMicroMacro ==
    op = "aggregate_results" => AggregateAsClaimed(ret, input, NonError(input))

\* Two non-error results whose ratios differ from the ratio of the sums,
\* next to an error result.
AggregateMicroMacroWitness ==
    /\ op = "aggregate_results"
    /\ ret.num_total = 3
    /\ ret.num_valid = 2
    /\ ret.final["file"].coverage = Ratio(1, 4)
    /\ ret.final["file"].precision = Ratio(1, 2)
    /\ ret.traj_auc["file"] = Ratio(2, 3)

(***************************************************************************)
(* src/evaluate.py: main; src/run_batch_eval_selected500.py: main          *)
(***************************************************************************)
MaxPreds == 2
MaxJobs == 2

\* One line of the prediction file. null_content says that an assistant
\* message of the record carries "content": null, for which re.search in
\* parse_trajectory raises TypeError.
MainPred(instance_id, checkout_ok, null_content, messages) ==
    [instance_id |-> instance_id, checkout_ok |-> checkout_ok,
     null_content |-> null_content,
     data |-> PredData(messages, <<>>, <<>>, <<>>, <<>>, <<>>)]

NoGold == [some |-> FALSE, init |-> <<>>, add |-> <<>>, patch |-> <<>>]

\* gold_loader.get(instance_id)
GoldOfInstance(instance_id) ==
    IF instance_id \in {"i1", "i2"}
    THEN [some |-> TRUE,
          init |-> <<[file |-> "/testbed/x.py", start_line |-> 1, end_line |-> 1]>>,
          add |-> <<>>, patch |-> <<>>]
    ELSE NoGold

\* evaluate_instance as main calls it: the checkout is decided first, then
\* the trajectory is parsed
EvaluateInstanceOrRaise(pred) ==
    IF pred.checkout_ok /\ pred.null_content THEN Raises("TypeError")
    ELSE EvaluateInstance(pred.instance_id, GoldOfInstance(pred.instance_id),
                          pred.data, pred.checkout_ok)

RECURSIVE MainLoop(_, _, _)
\* the end of one iteration: an exception leaves the loop and main
MainLoopNext(pred_list, i, results, result) ==
    IF Raised(result) THEN result
    ELSE MainLoop(pred_list, i + 1, Append(results, result))

\* the loop over pred_list
MainLoop(pred_list, i, results) ==
    IF i > Len(pred_list) THEN [results |-> results]
    ELSE IF pred_list[i].instance_id = "" \/ ~GoldOfInstance(pred_list[i].instance_id).some
    THEN MainLoop(pred_list, i + 1, results)
    ELSE MainLoopNext(pred_list, i, results, EvaluateInstanceOrRaise(pred_list[i]))

\* after the loop: the aggregate, and the results written to --out
MainEnd(done) ==
    IF Raised(done) THEN done
    ELSE [results |-> done.results, agg |-> AggregateResults(done.results)]

\* main() of evaluate.py: the results and the aggregate, or the exception
\* main ends with
Main(pred_list) == MainEnd(MainLoop(pred_list, 1, <<>>))

\* _run_one(job, gold, cache): the return code of the evaluate.py process
RunOne(job) == IF Raised(Main(job)) THEN 1 ELSE 0

\* main() of run_batch_eval_selected500.py: one (job, code) per job
BatchMain(jobs) == [k \in 1..Len(jobs) |-> [job |-> jobs[k], code |-> RunOne(jobs[k])]]

CallMain ==
    /\ op = "none"
    /\ op' = "main"
    /\ ret' = Main(input.pred_list)
    /\ UNCHANGED input

CallBatchMain ==
    /\ op = "none"
    /\ op' = "batch_main"
    /\ ret' = BatchMain(input.jobs)
    /\ UNCHANGED input

MainPredChoices ==
    { MainPred("", TRUE, FALSE, <<>>),
      MainPred("i3", TRUE, FALSE, <<>>),
      MainPred("i1", TRUE, FALSE,
               <<Message("assistant", TRUE, FALSE, Command("sed_n", "/testbed/x.py", 1, 2))>>),
      MainPred("i2", TRUE, FALSE, <<>>),
      MainPred("i2", FALSE, TRUE, <<>>),
      MainPred("i1", TRUE, TRUE, <<>>),
      MainPred("i2", TRUE, FALSE,
               <<Message("assistant", TRUE, FALSE, Command("cat", "y.py", 0, 0))>>) }

JobChoices ==
    { <<MainPred("i1", TRUE, FALSE,
                 <<Message("assistant", TRUE, FALSE, Command("cat", "y.py", 0, 0))>>)>>,
      <<MainPred("i1", TRUE, TRUE, <<>>)>>,
      <<MainPred("i2", TRUE, FALSE, <<>>)>> }

MainInit ==
    /\ input \in [pred_list : SeqsUpTo(MainPredChoices, MaxPreds),
                  jobs : SeqsUpTo(JobChoices, MaxJobs)]
    /\ op = "none"
    /\ ret = NoRet

MainNext == CallMain \/ CallBatchMain

SpecMain == MainInit /\ [][MainNext]_vars

\* --- the instances main has to evaluate: those with an id and a gold record
IsEvaluable(pred) == pred.instance_id # "" /\ GoldOfInstance(pred.instance_id).some

Evaluable(pred_list) == SelectSeq(pred_list, IsEvaluable)

FailsToEvaluate(pred) == Raised(EvaluateInstanceOrRaise(pred))

\* C20: an exception raised while evaluating one instance does not abort
\* the run: main ends normally with one result per evaluable instance, in
\* order, and the result of every instance whose evaluation raises nothing
\* is the one evaluate_instance returns for it.
InstanceFailuresIsolated ==
    op = "main" =>
        /\ ~Raised(ret)
        /\ Len(ret.results) = Len(Evaluable(input.pred_list))
        /\ \A k \in 1..Len(ret.results) :
              ~FailsToEvaluate(Evaluable(input.pred_list)[k]) =>
                  ret.results[k] = EvaluateInstanceOrRaise(Evaluable(input.pred_list)[k])

\* What the loop does: with no raising instance every evaluable instance gets
\* its result; otherwise main ends with the exception of the first one that
\* raises and returns no result at all.
InstanceFailureAbortsMain ==
    op = "main" =>
        IF \E k \in 1..Len(input.pred_list) :
               IsEvaluable(input.pred_list[k]) /\ FailsToEvaluate(input.pred_list[k])
        THEN ret = Raises("TypeError")
        ELSE /\ Len(ret.results) = Len(Evaluable(input.pred_list))
             /\ \A k \in 1..Len(ret.results) :
                   ret.results[k] = EvaluateInstanceOrRaise(Evaluable(input.pred_list)[k])

\* The batch runner does isolate its jobs: every job gets its return code,
\* non-zero exactly for the jobs whose evaluation ended with an exception.
BatchJobsIsolated ==
    op = "batch_main" =>
        /\ Len(ret) = Len(input.jobs)
        /\ \A k \in 1..Len(ret) :
              /\ ret[k].job = input.jobs[k]
              /\ ret[k].code # 0 <=>
                     \E i \in 1..Len(input.jobs[k]) :
                         IsEvaluable(input.jobs[k][i]) /\ FailsToEvaluate(input.jobs[k][i])

(***************************************************************************)
(* src/extractors/treesitter.py: available; src/evaluate.py: main's exit   *)
(***************************************************************************)
\* lines 40-57: the imports tried when the module is loaded; env says which
\* of the two packages can be imported
TsAvailable(env) == env.tree_sitter_languages

\* available()
Available(env) == TRUE

\* the exit code of the process and the results written by main
ExitOf(done) ==
    IF Raised(done) THEN [exit_code |-> 1, results |-> <<>>]
    ELSE [exit_code |-> 0, results |-> done.results]

\* python -m ...evaluate: the availability check of lines 226-230, then the
\* rest of main
RunEvaluate(env, pred_list) ==
    IF ~Available(env) THEN [exit_code |-> 1, results |-> <<>>]
    ELSE ExitOf(Main(pred_list))

CallRunEvaluate ==
    /\ op = "none"
    /\ op' = "run_evaluate"
    /\ ret' = RunEvaluate(input.env, input.pred_list)
    /\ UNCHANGED input

RunInit ==
    /\ input \in [env : [tree_sitter : BOOLEAN, tree_sitter_languages : BOOLEAN],
                  pred_list : SeqsUpTo(MainPredChoices, MaxPreds)]
    /\ op = "none"
    /\ ret = NoRet

RunNext == CallRunEvaluate

SpecRun == RunInit /\ [][RunNext]_vars

\* C21: when the definition-extraction backend cannot be initialized at all,
\* the run ends with an exit code other than success and no instance is
\* evaluated.
BackendFailureExits ==
    (op = "run_evaluate" /\ ~TsAvailable(input.env)) =>
        ret.exit_code # 0 /\ ret.results = <<>>

\* What the code does: the outcome of the run does not depend on the
\* backend, because available() answers TRUE whatever was imported.
BackendIgnored ==
    op = "run_evaluate" => ret = ExitOf(Main(input.pred_list))

(***************************************************************************)
(* src/core/repo.py: checkout under concurrent callers                     *)
(*                                                                         *)
(* Every caller asks for the same (repo_url, commit).  In this part        *)
(*   input  is what the callers find: the base clone and the worktree      *)
(*          left by earlier runs, and whether flock can be used;           *)
(*   op     gives each caller's position in checkout;                      *)
(*   ret    is the shared state: file system, lock, and what each caller   *)
(*          has run and returned.                                          *)
(***************************************************************************)
MaxCallers == 2
MaxAttempts == 3

Callers == 1..MaxCallers

NoCaller == 0

\* The worktree directory: whether it exists, the commit its HEAD names, and
\* whether its files are checked out.  `git worktree add` creates the
\* directory and sets HEAD before it checks the files out.
Worktree(isdir, head, populated) == [isdir |-> isdir, head |-> head, populated |-> populated]

Absent == Worktree(FALSE, "none", FALSE)
Linked == Worktree(TRUE, "commit", FALSE)
Materialized == Worktree(TRUE, "commit", TRUE)
Elsewhere == Worktree(TRUE, "other", TRUE)

\* os.path.isdir(worktree_dir) and _verify_commit(worktree_dir, commit)
VerifyCommit(wt) == wt.isdir /\ wt.head = "commit"

\* the caller ends with value: the directory ("dir") or None
Return(s, p, value) ==
    [s EXCEPT !.result[p] = value,
              !.returned_at[p] = IF value = "dir" THEN s.worktree ELSE Absent]

\* a git command of caller p
Ran(s, p, cmd) == [s EXCEPT !.ran[p] = @ \cup {cmd}]

\* _file_lock.__exit__ without releasing the lock
ExitKeepingLock(s, p) == s

\* _file_lock.__exit__
Exit(s, p) == IF s.lock = p THEN [s EXCEPT !.lock = NoCaller] ELSE s

Goto(p, label) == op' = [op EXCEPT ![p] = label]

\* lines 36-38
FastPath(p) ==
    /\ op[p] = "fast_path"
    /\ IF VerifyCommit(ret.worktree)
       THEN /\ ret' = Return([ret EXCEPT !.reused[p] = "fast_path"], p, "dir")
            /\ Goto(p, "done")
       ELSE /\ ret' = ret
            /\ Goto(p, "lock")
    /\ UNCHANGED input

\* _file_lock.__enter__: flock blocks until the lock is free
Enter(p) ==
    /\ op[p] = "lock"
    /\ input.flock
    /\ ret.lock = NoCaller
    /\ ret' = [ret EXCEPT !.lock = p]
    /\ Goto(p, "base")
    /\ UNCHANGED input

\* _file_lock.__enter__ when flock raises: the caller goes on without a lock
EnterUnlocked(p) ==
    /\ op[p] = "lock"
    /\ ~input.flock
    /\ ret' = ret
    /\ Goto(p, "base")
    /\ UNCHANGED input

\* line 43
BaseCheck(p) ==
    /\ op[p] = "base"
    /\ ret' = ret
    /\ Goto(p, IF ret.base = "git" THEN "fetch" ELSE "clone")
    /\ UNCHANGED input

\* lines 46-58: one attempt that succeeds
CloneOk(p) ==
    /\ op[p] = "clone"
    /\ ret' = Ran([ret EXCEPT !.base = "git", !.attempts[p] = @ + 1], p, "clone")
    /\ Goto(p, "fetch")
    /\ UNCHANGED input

\* lines 46-62: one attempt that fails, leaving a directory behind or not;
\* after the last one the call returns None
CloneFails(p) ==
    /\ op[p] = "clone"
    /\ \E left \in {"absent", "dir"} :
          IF ret.attempts[p] + 1 < MaxAttempts
          THEN /\ ret' = Ran([ret EXCEPT !.base = left, !.attempts[p] = @ + 1], p, "clone")
               /\ Goto(p, "clone")
          ELSE /\ ret' = Exit(Return(Ran([ret EXCEPT !.base = left, !.attempts[p] = @ + 1],
                                         p, "clone"), p, "None"), p)
               /\ Goto(p, "done")
    /\ UNCHANGED input

\* lines 65-70
Fetch(p) ==
    /\ op[p] = "fetch"
    /\ ret' = Ran(ret, p, "fetch")
    /\ Goto(p, "prune")
    /\ UNCHANGED input

\* line 73
Prune(p) ==
    /\ op[p] = "prune"
    /\ ret' = Ran(ret, p, "prune")
    /\ Goto(p, "recheck")
    /\ UNCHANGED input

\* lines 76-77
Recheck(p) ==
    /\ op[p] = "recheck"
    /\ IF VerifyCommit(ret.worktree)
       THEN /\ ret' = Exit(Return([ret EXCEPT !.reused[p] = "locked"], p, "dir"), p)
            /\ Goto(p, "done")
       ELSE /\ ret' = ret
            /\ Goto(p, "worktree_add")
    /\ UNCHANGED input

\* lines 82-87, git starting: it creates the directory and sets HEAD
WorktreeAddStarts(p) ==
    /\ op[p] = "worktree_add"
    /\ ~ret.worktree.isdir
    /\ ret' = Ran([ret EXCEPT !.worktree = Linked], p, "worktree_add")
    /\ Goto(p, "adding")
    /\ UNCHANGED input

\* lines 82-92, git refusing at once (the directory exists, or git cannot
\* create it)
WorktreeAddRefused(p) ==
    /\ op[p] = "worktree_add"
    /\ ret' = Exit(Return(Ran(ret, p, "worktree_add"), p,
                          IF VerifyCommit(ret.worktree) THEN "dir" ELSE "None"), p)
    /\ Goto(p, "done")
    /\ UNCHANGED input

\* git checks the files out and ends with 0; the with block is left
WorktreeAddOk(p) ==
    /\ op[p] = "adding"
    /\ ret' = Exit([ret EXCEPT !.worktree = Materialized], p)
    /\ Goto(p, "verify")
    /\ UNCHANGED input

\* lines 88-92: git fails while it checks the files out
WorktreeAddFails(p) ==
    /\ op[p] = "adding"
    /\ ret' = Exit(Return(ret, p, IF VerifyCommit(ret.worktree) THEN "dir" ELSE "None"), p)
    /\ Goto(p, "done")
    /\ UNCHANGED input

\* line 94
FinalVerify(p) ==
    /\ op[p] = "verify"
    /\ ret' = Return(ret, p, IF VerifyCommit(ret.worktree) THEN "dir" ELSE "None")
    /\ Goto(p, "done")
    /\ UNCHANGED input

CheckoutStep(p) ==
    \/ FastPath(p) \/ Enter(p) \/ EnterUnlocked(p) \/ BaseCheck(p)
    \/ CloneOk(p) \/ CloneFails(p) \/ Fetch(p) \/ Prune(p) \/ Recheck(p)
    \/ WorktreeAddStarts(p) \/ WorktreeAddRefused(p)
    \/ WorktreeAddOk(p) \/ WorktreeAddFails(p) \/ FinalVerify(p)

CheckoutInit ==
    /\ input \in [base : {"absent", "dir", "git"},
                  worktree : {Absent, Linked, Materialized, Elsewhere},
                  flock : BOOLEAN]
    /\ op = [p \in Callers |-> "fast_path"]
    /\ ret = [base |-> input.base, worktree |-> input.worktree, lock |-> NoCaller,
              attempts |-> [p \in Callers |-> 0],
              ran |-> [p \in Callers |-> {}],
              reused |-> [p \in Callers |-> "no"],
              result |-> [p \in Callers |-> "pending"],
              returned_at |-> [p \in Callers |-> Absent]]

CheckoutNext == \E p \in Callers : CheckoutStep(p)

SpecCheckout == CheckoutInit /\ [][CheckoutNext]_vars

\* git commands are assumed to end, and a caller that can take a step is not
\* held back for ever
SpecCheckoutFair == SpecCheckout /\ \A p \in Callers : WF_vars(CheckoutStep(p))

\* between __enter__ and __exit__ of the with block
InLockedSection(p) ==
    op[p] \in {"base", "clone", "fetch", "prune", "recheck", "worktree_add", "adding"}

\* C22: with a usable lock and no half-made worktree left by an earlier run,
\* under every interleaving a call that returns a directory returns one
\* whose files are all checked out at the commit, never one that another
\* caller is still creating.
ReturnedWorktreeMaterialized ==
    (input.flock /\ input.worktree # Linked) =>
        \A p \in Callers :
            ret.result[p] = "dir" => ret.returned_at[p] = Materialized

\* What the checks of lines 37, 76, 90 and 94 do ensure: the directory
\* returned exists and its HEAD names the commit.
ReturnedWorktreeAtCommit ==
    \A p \in Callers : ret.result[p] = "dir" => VerifyCommit(ret.returned_at[p])

\* C23: with a usable lock the locked sections of two callers never overlap,
\* and a caller that finds the worktree already there, before or after
\* waiting for the lock, reuses it without having cloned, fetched or added a
\* worktree.
CheckoutSerializedAndReused ==
    input.flock =>
        /\ \A p, q \in Callers : (InLockedSection(p) /\ InLockedSection(q)) => p = q
        /\ \A p \in Callers :
              ret.reused[p] # "no" =>
                  ret.ran[p] \cap {"clone", "fetch", "worktree_add"} = {}

\* The part that holds: the lock serializes, the fast path reuses without
\* any git command, and a caller that reuses after the lock adds no worktree.
CheckoutSerialized ==
    input.flock =>
        /\ \A p, q \in Callers : (InLockedSection(p) /\ InLockedSection(q)) => p = q
        /\ \A p \in Callers :
              /\ ret.reused[p] = "fast_path" => ret.ran[p] = {}
              /\ ret.reused[p] = "locked" =>
                    /\ "worktree_add" \notin ret.ran[p]
                    /\ {"fetch", "prune"} \subseteq ret.ran[p]

\* C30: every checkout call ends; the base clone is tried at most
\* MaxAttempts times and the call returns None when every try failed; a
\* caller that has left the locked section no longer holds the lock, so
\* a caller waiting for the lock gets it.
CheckoutTerminates ==
    /\ [](\A p \in Callers :
              /\ ret.attempts[p] <= MaxAttempts
              /\ (op[p] = "done" /\ ret.attempts[p] = MaxAttempts /\ ret.ran[p] = {"clone"})
                     => ret.result[p] = "None"
              /\ ~InLockedSection(p) => ret.lock # p)
    /\ \A p \in Callers : (op[p] = "lock") ~> (op[p] = "base")
    /\ <>[](\A p \in Callers : op[p] = "done" /\ ret.result[p] # "pending")

\* One caller gave up after MaxAttempts failed clones while holding the
\* lock, and another caller still got the lock and its worktree.
CheckoutTerminatesWitness ==
    /\ input.flock
    /\ \E p, q \in Callers :
          /\ ret.attempts[p] = MaxAttempts /\ ret.result[p] = "None"
          /\ ret.ran[p] = {"clone"}
          /\ "worktree_add" \in ret.ran[q] /\ ret.result[q] = "dir"
    /\ ret.lock = NoCaller

(***************************************************************************)
(* Invariants of the metrics                                               *)
(***************************************************************************)
\* C24: the per-step coverage of compute_trajectory_metrics never decreases
\* from one step to the next, at file, symbol and span granularity.
PerStepCoverageMonotone ==
    op = "compute_trajectory_metrics" =>
        \A gran \in Granularities :
            \A t \in 1..(Len(ret.steps) - 1) :
                RLeq(ret.steps[t].coverage[gran], ret.steps[t + 1].coverage[gran])

\* Three steps whose file coverage grows at each step and whose span
\* coverage grows as well.
PerStepCoverageMonotoneWitness ==
    /\ op = "compute_trajectory_metrics"
    /\ Len(ret.steps) = 3
    /\ ret.steps[1].coverage.file = Zero
    /\ ret.steps[2].coverage.file = Ratio(1, 2)
    /\ ret.steps[3].coverage.file = One
    /\ ret.steps[1].coverage.span # ret.steps[3].coverage.span
    /\ ret.steps[2].coverage.symbol # ret.steps[3].coverage.symbol

\* --- the two metric functions on inputs that are not merged
\* interval lists as a caller may hand them over: overlapping, repeated,
\* adjacent, unsorted
UnmergedSpans ==
    { <<>>,
      <<<<0, 1>>>>,
      <<<<0, 2>>, <<1, 3>>>>,
      <<<<2, 3>>, <<0, 0>>, <<2, 3>>>>,
      <<<<1, 1>>, <<2, 2>>, <<0, 3>>>> }

SpansOn(intervals) == [f \in RepoPaths |-> IF f = "x.py" THEN intervals ELSE <<>>]

FileSets == { {}, {"x.py"}, {"x.py", "y.py"} }

DefSets ==
    { {}, {<<"x.py", "function_definition", 0, 4>>},
      {<<"x.py", "function_definition", 0, 4>>, <<"x.py", "class_definition", 4, 8>>} }

MetricSteps ==
    { Step(<<"x.py">>, <<LineSpan("x.py", 1, 2)>>, NoSymbols),
      Step(<<"x.py", "y.py">>, <<LineSpan("x.py", 2, 3), LineSpan("x.py", 1, 2)>>, NoSymbols) }

CallGranularityMetrics ==
    /\ op = "none"
    /\ op' = "compute_granularity_metrics"
    /\ ret' = ComputeGranularityMetrics(
                  [files |-> input.pred_files, symbols |-> input.pred_defs,
                   spans |-> SpansOn(input.pred_spans)],
                  [files |-> input.gold_files, symbols |-> input.gold_defs,
                   spans |-> SpansOn(input.gold_spans)])
    /\ UNCHANGED input

CallTrajectoryMetricsOnContext ==
    /\ op = "none"
    /\ op' = "compute_trajectory_metrics"
    /\ ret' = ComputeTrajectoryMetrics(
                  input.steps,
                  [files |-> input.gold_files, symbols |-> input.gold_defs,
                   spans |-> SpansOn(input.gold_spans)])
    /\ UNCHANGED input

MetricsInit ==
    /\ input \in [pred_files : FileSets, gold_files : FileSets,
                  pred_defs : DefSets, gold_defs : DefSets,
                  pred_spans : UnmergedSpans, gold_spans : UnmergedSpans,
                  steps : SeqsUpTo(MetricSteps, MaxSteps)]
    /\ op = "none"
    /\ ret = NoRet

MetricsNext == CallGranularityMetrics \/ CallTrajectoryMetricsOnContext

SpecMetrics == MetricsInit /\ [][MetricsNext]_vars

\* 0 <= x <= 1
InUnit(x) == RLeq(Zero, x) /\ RLeq(x, One)

\* C25: in every output of compute_granularity_metrics and of
\* compute_trajectory_metrics, also for interval lists that are not merged,
\* the intersection is at most the gold size and at most the predicted size,
\* every coverage, precision and per-step coverage lies in [0, 1] and every
\* redundancy in [0, 1).
MetricsBounded ==
    /\ op = "compute_granularity_metrics" =>
          \A gran \in Granularities :
              /\ ret[gran].intersection <= ret[gran].gold_size
              /\ ret[gran].intersection <= ret[gran].pred_size
              /\ InUnit(ret[gran].coverage) /\ InUnit(ret[gran].precision)
    /\ op = "compute_trajectory_metrics" =>
          \A gran \in Granularities :
              /\ \A t \in 1..Len(ret.steps) : InUnit(ret.steps[t].coverage[gran])
              /\ InUnit(ret.auc_coverage[gran])
              /\ InUnit(ret.redundancy[gran]) /\ ret.redundancy[gran] # One

\* Overlapping predicted intervals cover all of the repeated gold bytes with
\* a precision below 1.
MetricsBoundedWitness ==
    /\ op = "compute_granularity_metrics"
    /\ input.pred_spans = <<<<0, 2>>, <<1, 3>>>>
    /\ input.gold_spans = <<<<2, 3>>, <<0, 0>>, <<2, 3>>>>
    /\ ret.span.intersection = 3 /\ ret.span.gold_size = 3 /\ ret.span.pred_size = 4
    /\ ret.span.precision = Ratio(3, 4)

\* C26: parse_trajectory never returns an empty step list: when no
\* assistant turn views a file the list is the single final-context step;
\* so every result of evaluate_instance without an error has num_steps >= 1
\* and as many per-step entries, and never the zero-step outcome of
\* compute_trajectory_metrics.
NeverZeroSteps ==
    op = "evaluate_instance" =>
        /\ ParseTrajectory(input.pred).steps # <<>>
        /\ ViewTurns(input.pred.messages) = <<>> =>
              ParseTrajectory(input.pred).steps = <<ParseTrajectory(input.pred).final>>
        /\ ~HasError(ret) =>
              /\ ret.num_steps >= 1
              /\ Len(ret.trajectory.steps) = ret.num_steps

\* A log without any viewing turn whose patch context names lines of x.py:
\* the result has the final context as its only step.
NeverZeroStepsWitness ==
    /\ op = "evaluate_instance"
    /\ ~HasError(ret)
    /\ input.pred.messages # <<>>
    /\ ViewTurns(input.pred.messages) = <<>>
    /\ ret.num_steps = 1
    /\ Len(ret.trajectory.steps) = 1

\* The lines of a text file: a newline ends a line, so a file that ends
\* with a newline has as many lines as newlines.
TextLines(content) ==
    IF content[Len(content)] = "nl" THEN NumLines(content) - 1 ELSE NumLines(content)

LineToByteWithin(r, content) ==
    r # None => (0 <= r[1] /\ r[1] <= r[2] /\ r[2] <= Len(content) - 1)

\* C27: for every non-empty file, also one that ends with a newline, a
\* mapping returned by line_to_byte satisfies
\* 0 <= start_byte <= end_byte <= len(content) - 1, and a start_line greater
\* than the number of lines of the file yields no mapping.
LineToByteInsideFile ==
    (op = "line_to_byte" /\ input.exists /\ input.content # <<>>) =>
        /\ LineToByteWithin(ret, input.content)
        /\ input.start_line > TextLines(input.content) => ret = None

\* It holds for the files that do not end with a newline.
LineToByteInsideUnterminatedFile ==
    (/\ op = "line_to_byte" /\ input.exists /\ input.content # <<>>
     /\ input.content[Len(input.content)] # "nl") =>
        /\ LineToByteWithin(ret, input.content)
        /\ input.start_line > TextLines(input.content) => ret = None

\* For a file that ends with a newline the line after the last one maps to
\* the byte after the last one.
LineToByteAfterFinalNewline ==
    (/\ op = "line_to_byte" /\ input.exists /\ input.content # <<>>
     /\ input.content[Len(input.content)] = "nl"
     /\ input.start_line = TextLines(input.content) + 1) =>
        ret = <<Len(input.content), Len(input.content)>>

(***************************************************************************)
(* src/parsers/diff.py: the file a hunk is attributed to                   *)
(***************************************************************************)
\* the blocks of a patch whose header is '+++ b/f'
RECURSIVE OwnBlocks(_, _)
OwnBlocks(patch, f) ==
    IF patch = <<>> THEN <<>>
    ELSE (IF Head(patch).hdr = f THEN <<Head(patch)>> ELSE <<>>) \o OwnBlocks(Tail(patch), f)

HunksFromOwnBlocks(deletions_only) ==
    \A f \in Files :
        ret[f] = ParseDiffLines(PatchText(OwnBlocks(input.patch, f)), deletions_only)[f]

\* C28: the line ranges returned under file F come from the hunks of F's own
\* blocks only: what the parser returns for F is what it returns for the
\* patch reduced to the blocks headed '+++ b/F'; the hunks of a block with
\* another '+++' header (a deleted file's '+++ /dev/null') or before any
\* header go to no file.
HunksStayInOwnBlock ==
    /\ op = "parse_diff_lines_deletions" => HunksFromOwnBlocks(TRUE)
    /\ op = "parse_diff_lines_additions" => HunksFromOwnBlocks(FALSE)

\* It holds for the patches in which no '+++ /dev/null' block follows the
\* block of a file, in particular for hunks before any '+++ b/' header.
HunksStayInOwnBlockBeforeDeletedFile ==
    (\A bi \in 2..Len(input.patch) : input.patch[bi].hdr # "null") =>
        /\ op = "parse_diff_lines_deletions" => HunksFromOwnBlocks(TRUE)
        /\ op = "parse_diff_lines_additions" => HunksFromOwnBlocks(FALSE)

(***************************************************************************)
(* src/evaluate.py: aggregate_results on the result of one instance        *)
(***************************************************************************)
\* main, lines 241-255, for one prediction: results = [evaluate_instance(...)]
\* and aggregate = aggregate_results(results)
SingleBatch(result) == [result |-> result, agg |-> AggregateResults(<<result>>)]

CallEvaluateAndAggregate ==
    /\ op = "none"
    /\ op' = "aggregate_single"
    /\ ret' = SingleBatch(EvaluateInstance("i1", input.gold, input.pred, input.checkout_ok))
    /\ UNCHANGED input

SingleInit == EvaluateInit

SingleNext == CallEvaluateAndAggregate

SpecSingle == SingleInit /\ [][SingleNext]_vars

SingleMetricsKept ==
    \A gran \in Granularities :
        /\ ret.agg.final[gran].coverage = ret.result.final[gran].coverage
        /\ ret.agg.final[gran].precision = ret.result.final[gran].precision
        /\ ret.agg.traj_auc[gran] = ret.result.trajectory.auc_coverage[gran]
        /\ ret.agg.traj_redundancy[gran] = ret.result.trajectory.redundancy[gran]

SingleEditLocKept ==
    HasEditLoc(ret.result) =>
        /\ ret.agg.editloc.recall = ret.result.editloc.recall
        /\ ret.agg.editloc.precision = ret.result.editloc.precision

\* C29: for a batch of one non-error instance result every aggregated ratio
\* equals the same ratio of that instance: final coverage and precision, AUC
\* and redundancy per granularity, and edit-localization recall and precision.
SingleInstanceRatiosKept ==
    (op = "aggregate_single" /\ ~HasError(ret.result)) =>
        SingleMetricsKept /\ SingleEditLocKept

\* The context metrics are kept; the edit-localization ratios are computed
\* anew from the sizes, recall as intersection / gold_size.
SingleInstanceContextRatiosKept ==
    (op = "aggregate_single" /\ ~HasError(ret.result)) => SingleMetricsKept

SingleInstanceEditLocRecomputed ==
    (op = "aggregate_single" /\ ~HasError(ret.result) /\ HasEditLoc(ret.result)) =>
        /\ ret.agg.editloc.recall =
               CoveragePrecision(ret.result.editloc.pred_size, ret.result.editloc.gold_size,
                                 ret.result.editloc.intersection).cov
        /\ ret.agg.editloc.precision =
               CoveragePrecision(ret.result.editloc.pred_size, ret.result.editloc.gold_size,
                                 ret.result.editloc.intersection).prec

====
